---- MODULE Spec2Model ----
(***************************************************************************)
(* Model of the SGX runtime provisioner's attestation path:                *)
(*   go/runtime/host/sgx/sgx.go      teeState, hostInitializer,            *)
(*                                   updateCapabilityTEE, attestationWorker*)
(*   go/runtime/host/sgx/ecdsa.go    teeStateECDSA (src/unnamed/part_000)  *)
(*   go/runtime/host/sgx/mock.go     teeStateMock                          *)
(*   go/runtime/host/sgx/common/metrics.go                                 *)
(* Every external call (registry, AESM, PCS, enclave transport) is one     *)
(* step of the calling goroutine; the local code that follows a call up to *)
(* the next call belongs to the same step.  Time is counted in units of 15 *)
(* minutes.                                                                *)
(***************************************************************************)
EXTENDS Integers, Sequences, FiniteSets, TLC

\* ------------------------------------------------------------------ bounds
\* Number of times the clock advances.
MaxTicks == 2
\* Largest number of Updates counted by the metrics, and of Updated events
\* emitted, after which the worker still starts a re-attestation.
MaxAttest == 2
\* Largest number of notifications counted between two receives of the worker.
MaxNotify == 2

\* --------------------------------------------------------------- constants
\* TCB cache timing (15-minute units): refresh_interval = 1 h, safety_margin = 15 min.
RefreshInterval == 4
SafetyMargin == 1
\* cfg.RuntimeAttestInterval (configurable; here one hour).
RuntimeAttestInterval == 4
\* The clock is observed once per hour.
TickStep == RefreshInterval
MaxTime == MaxTicks * TickStep
\* nextUpdate of a short-lived and of a long-lived bundle served by PCS.
ExpirySoon == TickStep
ExpiryLate == MaxTime + TickStep

\* ------------------------------------------------------------------ domains
\* The goroutines: hostInitializer and the attestation worker of a runtime,
\* and the attestation of a second runtime of the same host.
Procs == {"host", "worker", "peer"}
FMSPCs == {1, 2}
KeyIDs == {1, 2}
Statuses == {"UpToDate", "OutOfDate"}

NoBundle == [fmspc |-> 0, status |-> "none", nextUpdate |-> 0]
\* The bundles PCS can serve for FMSPC f.
BundlesOf(f) == [fmspc : {f}, status : Statuses, nextUpdate : {ExpirySoon, ExpiryLate}]

\* A quote policy is its set of allowed TCB statuses.
NoPolicy == {"none"}
Policies == {{"UpToDate"}, {"UpToDate", "OutOfDate"}}

\* Raw quotes the quoting service of a platform with FMSPC f can hand back, by
\* what decoding finds in them.
NoQuote == [kind |-> "none", fmspc |-> 0]
QuotesOf(f) == [kind : {"pck"}, fmspc : {f}]
          \cup [kind : {"malformed", "nonecdsa", "ppid", "othercert", "badpck"}, fmspc : {0}]

\* Errors: the message class and the innermost wrapped error (errors.As sees it).
NoErr == [msg |-> "", cause |-> ""]
Err(m, c) == [msg |-> m, cause |-> c]

NoAtt == [quote |-> NoQuote, tcb |-> NoBundle, height |-> 0, signature |-> 0, version |-> 0]
\* No RakQuote response yet.
NoRsp == [kind |-> "none", h |-> 0, sig |-> 0]
\* node.LatestSGXAttestationVersion
LatestSGXAttestationVersion == 1

NoEntry == [bundle |-> NoBundle, nextRefresh |-> 0]

\* What is remembered of a past Update: how many downloads it made and whether
\* it cached one.
NoPrev == [any |-> FALSE, fetches |-> 0, stored |-> FALSE]

Min(a, b) == IF a <= b THEN a ELSE b

\* One log entry of an attestation: an external call or a cache/verify step.
Ev(op, which, b, res) == [op |-> op, which |-> which, b |-> b, res |-> res]

\* ------------------------------------------------------- pure functions
\* quote.Verify(policy, now, bundle): the TCB verifier's verdict.
QuoteVerify(q, pol, t, b) ==
    IF b.fmspc # q.fmspc THEN "invalid"
    ELSE IF t > b.nextUpdate THEN "invalid"
    ELSE IF b.status \notin pol THEN "tcbOutOfDate"
    ELSE "ok"

\* The verifier's verdict on what a download or a cache lookup returned.
Verdict(q, pol, t, b) == IF b = NoBundle THEN "none" ELSE QuoteVerify(q, pol, t, b)

\* teeStateECDSA.verifyBundle
verifyBundle(q, pol, b, t, which) ==
    IF b = NoBundle THEN Err("nil bundle is not valid", "nilBundle")
    ELSE LET r == QuoteVerify(q, pol, t, b) IN
         CASE r = "ok" -> NoErr
           [] r = "tcbOutOfDate" -> Err("tcbOutOfDate", "tcbOutOfDate")
           [] OTHER -> Err("quote verification failed", "invalid")

\* tcbCache.check: (cached bundle, refresh due).
tcbCheck(store, f, t) ==
    IF store[f] = NoEntry THEN [cached |-> NoBundle, refresh |-> TRUE]
    ELSE [cached |-> store[f].bundle, refresh |-> (t >= store[f].nextRefresh)]

\* tcbCache.cache: the store after caching bundle b under FMSPC f at time t.
tcbCache(store, b, f, t) ==
    [store EXCEPT ![f] = [bundle |-> b,
                          nextRefresh |-> Min(b.nextUpdate - SafetyMargin, t + RefreshInterval)]]

\* A faulty UpdateCached: a cached bundle is used without being verified.
UpdateCachedUnverified(q, pol, cachedB, t) ==
    IF cachedB # NoBundle
    THEN [tcb |-> cachedB, force |-> FALSE, err |-> NoErr, ev |-> << >>]
    ELSE [tcb |-> NoBundle, force |-> TRUE, err |-> Err("nil bundle is not valid", "nilBundle"),
          ev |-> << Ev("verify", "cached", cachedB, "nilBundle") >>]

\* A faulty UpdateCached: a download is forced also when the cached bundle
\* verifies.
UpdateCachedAlwaysForce(q, pol, cachedB, t) ==
    LET ec == verifyBundle(q, pol, cachedB, t, "cached") IN
    [tcb |-> NoBundle, force |-> TRUE, err |-> ec,
     ev |-> << Ev("verify", "cached", cachedB, IF ec = NoErr THEN "ok" ELSE ec.cause) >>]

\* teeStateECDSA.Update, the bundle selection with no scheduled refresh due:
\* the cached bundle is verified; a failure asks for a forced download.
UpdateCached(q, pol, cachedB, t) ==
    LET ec == verifyBundle(q, pol, cachedB, t, "cached") IN
    IF ec = NoErr
    THEN [tcb |-> cachedB, force |-> FALSE, err |-> NoErr,
          ev |-> << Ev("verify", "cached", cachedB, "ok") >>]
    ELSE [tcb |-> NoBundle, force |-> TRUE, err |-> ec,
          ev |-> << Ev("verify", "cached", cachedB, ec.cause) >>]

\* A faulty UpdateScheduled: a verified fresh bundle is used but not cached.
UpdateScheduledNoStore(q, pol, cachedB, freshB, t) ==
    LET ef == verifyBundle(q, pol, freshB, t, "fresh")
        ec == verifyBundle(q, pol, cachedB, t, "cached")
    IN  IF ef = NoErr
        THEN [tcb |-> freshB, store |-> FALSE, err |-> NoErr,
              ev |-> << Ev("verify", "fresh", freshB, "ok") >>]
        ELSE IF ec = NoErr
        THEN [tcb |-> cachedB, store |-> FALSE, err |-> NoErr,
              ev |-> << Ev("verify", "fresh", freshB, ef.cause),
                        Ev("verify", "cached", cachedB, "ok") >>]
        ELSE [tcb |-> NoBundle, store |-> FALSE,
              err |-> Err("both fresh and cached TCB bundles failed verification", ec.cause),
              ev |-> << Ev("verify", "fresh", freshB, ef.cause),
                        Ev("verify", "cached", cachedB, ec.cause) >>]

\* A faulty UpdateScheduled: no fall back to the cached bundle.
UpdateScheduledFreshOnly(q, pol, cachedB, freshB, t) ==
    LET ef == verifyBundle(q, pol, freshB, t, "fresh")
    IN  IF ef = NoErr
        THEN [tcb |-> freshB, store |-> TRUE, err |-> NoErr,
              ev |-> << Ev("verify", "fresh", freshB, "ok"),
                        Ev("cache", "fresh", freshB, "ok") >>]
        ELSE [tcb |-> NoBundle, store |-> FALSE, err |-> ef,
              ev |-> << Ev("verify", "fresh", freshB, ef.cause) >>]

\* A faulty UpdateScheduled: when both bundles fail, the fresh bundle's error
\* is returned.
UpdateScheduledFreshError(q, pol, cachedB, freshB, t) ==
    LET ef == verifyBundle(q, pol, freshB, t, "fresh")
        ec == verifyBundle(q, pol, cachedB, t, "cached")
    IN  IF ef = NoErr
        THEN [tcb |-> freshB, store |-> TRUE, err |-> NoErr,
              ev |-> << Ev("verify", "fresh", freshB, "ok"),
                        Ev("cache", "fresh", freshB, "ok") >>]
        ELSE IF ec = NoErr
        THEN [tcb |-> cachedB, store |-> FALSE, err |-> NoErr,
              ev |-> << Ev("verify", "fresh", freshB, ef.cause),
                        Ev("verify", "cached", cachedB, "ok") >>]
        ELSE [tcb |-> NoBundle, store |-> FALSE,
              err |-> Err("both fresh and cached TCB bundles failed verification", ef.cause),
              ev |-> << Ev("verify", "fresh", freshB, ef.cause),
                        Ev("verify", "cached", cachedB, ec.cause) >>]

\* A faulty UpdateScheduled: the downloaded bundle is cached before it is
\* verified.
UpdateScheduledStoreFirst(q, pol, cachedB, freshB, t) ==
    LET ef == verifyBundle(q, pol, freshB, t, "fresh")
        ec == verifyBundle(q, pol, cachedB, t, "cached")
    IN  IF ef = NoErr
        THEN [tcb |-> freshB, store |-> TRUE, err |-> NoErr,
              ev |-> << Ev("cache", "fresh", freshB, "ok"),
                        Ev("verify", "fresh", freshB, "ok") >>]
        ELSE IF ec = NoErr
        THEN [tcb |-> cachedB, store |-> freshB # NoBundle, err |-> NoErr,
              ev |-> << Ev("verify", "fresh", freshB, ef.cause),
                        Ev("verify", "cached", cachedB, "ok") >>]
        ELSE [tcb |-> NoBundle, store |-> freshB # NoBundle,
              err |-> Err("both fresh and cached TCB bundles failed verification", ec.cause),
              ev |-> << Ev("verify", "fresh", freshB, ef.cause),
                        Ev("verify", "cached", cachedB, ec.cause) >>]

\* A faulty UpdateScheduled: the cached bundle is tried only after a failed
\* download or a TCB out-of-date error of the fresh bundle; any other
\* verification failure of the fresh bundle fails the Update.
UpdateScheduledRecoverListed(q, pol, cachedB, freshB, t) ==
    LET ef == verifyBundle(q, pol, freshB, t, "fresh")
        ec == verifyBundle(q, pol, cachedB, t, "cached")
    IN  IF ef = NoErr
        THEN [tcb |-> freshB, store |-> TRUE, err |-> NoErr,
              ev |-> << Ev("verify", "fresh", freshB, "ok"),
                        Ev("cache", "fresh", freshB, "ok") >>]
        ELSE IF ef.cause \notin {"nilBundle", "tcbOutOfDate"}
        THEN [tcb |-> NoBundle, store |-> FALSE, err |-> ef,
              ev |-> << Ev("verify", "fresh", freshB, ef.cause) >>]
        ELSE IF ec = NoErr
        THEN [tcb |-> cachedB, store |-> FALSE, err |-> NoErr,
              ev |-> << Ev("verify", "fresh", freshB, ef.cause),
                        Ev("verify", "cached", cachedB, "ok") >>]
        ELSE [tcb |-> NoBundle, store |-> FALSE,
              err |-> Err("both fresh and cached TCB bundles failed verification", ec.cause),
              ev |-> << Ev("verify", "fresh", freshB, ef.cause),
                        Ev("verify", "cached", cachedB, ec.cause) >>]

\* A faulty UpdateScheduled: the cached bundle is verified too when the fresh
\* bundle has verified.
UpdateScheduledBothVerified(q, pol, cachedB, freshB, t) ==
    LET ef == verifyBundle(q, pol, freshB, t, "fresh")
        ec == verifyBundle(q, pol, cachedB, t, "cached")
    IN  IF ef = NoErr
        THEN [tcb |-> freshB, store |-> TRUE, err |-> NoErr,
              ev |-> << Ev("verify", "fresh", freshB, "ok"),
                        Ev("verify", "cached", cachedB, IF ec = NoErr THEN "ok" ELSE ec.cause),
                        Ev("cache", "fresh", freshB, "ok") >>]
        ELSE IF ec = NoErr
        THEN [tcb |-> cachedB, store |-> FALSE, err |-> NoErr,
              ev |-> << Ev("verify", "fresh", freshB, ef.cause),
                        Ev("verify", "cached", cachedB, "ok") >>]
        ELSE [tcb |-> NoBundle, store |-> FALSE,
              err |-> Err("both fresh and cached TCB bundles failed verification", ec.cause),
              ev |-> << Ev("verify", "fresh", freshB, ef.cause),
                        Ev("verify", "cached", cachedB, ec.cause) >>]

\* teeStateECDSA.Update, the bundle selection after the scheduled refresh
\* download returned freshB (NoBundle when the download failed): fresh first,
\* then cached, then the cached bundle's error.
UpdateScheduled(q, pol, cachedB, freshB, t) ==
    LET ef == verifyBundle(q, pol, freshB, t, "fresh")
        ec == verifyBundle(q, pol, cachedB, t, "cached")
    IN  IF ef = NoErr
        THEN [tcb |-> freshB, store |-> TRUE, err |-> NoErr,
              ev |-> << Ev("verify", "fresh", freshB, "ok"),
                        Ev("cache", "fresh", freshB, "ok") >>]
        ELSE IF ec = NoErr
        THEN [tcb |-> cachedB, store |-> FALSE, err |-> NoErr,
              ev |-> << Ev("verify", "fresh", freshB, ef.cause),
                        Ev("verify", "cached", cachedB, "ok") >>]
        ELSE [tcb |-> NoBundle, store |-> FALSE,
              err |-> Err("both fresh and cached TCB bundles failed verification", ec.cause),
              ev |-> << Ev("verify", "fresh", freshB, ef.cause),
                        Ev("verify", "cached", cachedB, ec.cause) >>]

\* A faulty UpdateForced: the downloaded bundle is cached and used without
\* being verified.
UpdateForcedUnchecked(q, pol, freshB, t) ==
    IF freshB = NoBundle
    THEN [tcb |-> NoBundle, store |-> FALSE, err |-> Err("pcs", "pcs"), ev |-> << >>]
    ELSE [tcb |-> freshB, store |-> TRUE, err |-> NoErr,
          ev |-> << Ev("cache", "downloaded", freshB, "ok") >>]

\* teeStateECDSA.Update, the forced download: freshB is what the download
\* returned (NoBundle when it failed).  Any error is fatal.
UpdateForced(q, pol, freshB, t) ==
    LET ef == verifyBundle(q, pol, freshB, t, "downloaded") IN
    IF freshB = NoBundle
    THEN [tcb |-> NoBundle, store |-> FALSE, err |-> Err("pcs", "pcs"), ev |-> << >>]
    ELSE IF ef # NoErr
    THEN [tcb |-> NoBundle, store |-> FALSE, err |-> ef,
          ev |-> << Ev("verify", "downloaded", freshB, ef.cause) >>]
    ELSE [tcb |-> freshB, store |-> TRUE, err |-> NoErr,
          ev |-> << Ev("verify", "downloaded", freshB, "ok"),
                    Ev("cache", "downloaded", freshB, "ok") >>]

\* A faulty quoteChecks: PPID certification data is let through.
quoteChecksPpidAccepted(q) ==
    CASE q.kind = "malformed" -> Err("failed to parse quote", "decode")
      [] q.kind = "nonecdsa"  -> Err("unsupported attestation key type", "unsupported")
      [] q.kind = "othercert" -> Err("unsupported certification data type", "unsupported")
      [] q.kind = "badpck"    -> Err("PCK verification failed", "pck")
      [] OTHER -> NoErr

\* A faulty quoteChecks: a quote is passed on to PCK verification whatever its
\* signature and certification data are.
quoteChecksPckOnly(q) ==
    CASE q.kind = "malformed" -> Err("failed to parse quote", "decode")
      [] q.kind = "pck"       -> NoErr
      [] OTHER -> Err("PCK verification failed", "pck")

\* teeStateECDSA.Update, decoding and classifying the raw quote up to PCK
\* verification: the error it stops with, or NoErr.
quoteChecks(q) ==
    CASE q.kind = "malformed" -> Err("failed to parse quote", "decode")
      [] q.kind = "nonecdsa"  -> Err("unsupported attestation key type", "unsupported")
      [] q.kind = "ppid"      -> Err("PPID certification data not yet supported", "unsupported")
      [] q.kind = "othercert" -> Err("unsupported certification data type", "unsupported")
      [] q.kind = "badpck"    -> Err("PCK verification failed", "pck")
      [] OTHER -> NoErr

\* ------------------------------------------------------------------- state
VARIABLES
    pc,         \* per goroutine: where it stands
    loc,        \* per goroutine: the locals of the attestation it runs
    impl,       \* teeState.impl: "nil", "ECDSA", "EPID" or "Mock"
    key,        \* teeStateECDSA.key (0: unset)
    tcbStore,   \* the persisted TCB cache, per FMSPC
    now,        \* the clock
    ticker,     \* the worker's time.Ticker
    notifyCh,   \* tokens in hp.NotifyUpdateCapabilityTEE
    exited,     \* hp.Process.Wait() is closed
    metrics,    \* the three attestation counters
    platform,   \* the FMSPC of the host's CPU, which its PCK certificates carry
                \* (the FMSPCs are interchangeable: the host has the first)
    cfg,        \* the node's set-up, fixed while it runs: metricsOn, whether
                \* metrics are enabled; keyIDs, the attestation key IDs the
                \* quoting service can list first; history, whether the history
                \* of past Updates (hist.prev, since, unsupported) is kept;
                \* events, whether the worker's last Updated event is kept
    hist        \* history: emitted, the worker's Updated events; owed, the
                \* notifications sent during an attestation since the worker last
                \* received one; sinceReset, the time since it last received one
                \* (capped at the attest interval); prev, the last Update that
                \* reached its cache lookup; since, the time since that lookup
                \* (capped at the refresh interval); unsupported, an Update of the
                \* worker has failed with an unsupported error; event, the
                \* attestation in the CapabilityTEE of the Updated event the worker
                \* emitted when it last returned from an attestation, kept until
                \* it starts the next one; cache, where the cache object
                \* teeStateECDSA.tcbCache was created: "none" (there is none),
                \* "current" (in the Init or attestation now running, or just
                \* returned) or "earlier" (in one that returned before)

vars == << pc, loc, impl, key, tcbStore, now, ticker, notifyCh, exited, metrics, platform, hist, cfg >>

\* Capacity of the notification channel.
NotifyCap == 1

\* The locals of one initCapabilityTEE or updateCapabilityTEE.  fetched, vFetched
\* and vCached are history: the bundle the last download returned, and the TCB
\* verifier's verdict on it and on the cached bundle when the selection ran;
\* gap is history too: the time from the previous Update's cache lookup to
\* this one's; rsp is the enclave's answer to RakQuote; overlap is history:
\* when this Update called GetTCBBundle, another Update was about to call it
\* for the same FMSPC.
InitLoc == [phase |-> "idle", trigger |-> "none", coalesced |-> 0, gap |-> 0, newKey |-> 0, quote |-> NoQuote,
            policy |-> NoPolicy, refresh |-> FALSE, entry |-> NoEntry,
            tcb |-> NoBundle, err |-> NoErr, att |-> NoAtt, rsp |-> NoRsp, log |-> << >>,
            fetched |-> NoBundle, vFetched |-> "", vCached |-> "", overlap |-> FALSE]

\* The state when hostInitializer is entered: a fresh teeState, whose
\* implementation teeState.init is still to choose, or, in a mock set-up, one
\* that carries the mock implementation.
InitWith(c) ==
    /\ cfg = c
    /\ impl \in {"nil", "Mock"}
    /\ pc = [p \in Procs |-> IF p = "host" THEN (IF impl = "nil" THEN "ts_init" ELSE "mock_init")
                             ELSE "off"]
    /\ loc = [p \in Procs |-> IF p = "host" THEN [InitLoc EXCEPT !.phase = "init"] ELSE InitLoc]
    /\ key = 0
    /\ tcbStore = [f \in FMSPCs |-> NoEntry]
    /\ now = 0
    /\ ticker = [running |-> FALSE, next |-> 0, pending |-> FALSE]
    /\ notifyCh = 0
    /\ exited = FALSE
    /\ metrics = [performed |-> 0, successful |-> 0, failed |-> 0]
    /\ platform = 1
    /\ hist = [emitted |-> 0, owed |-> 0, sinceReset |-> RuntimeAttestInterval,
               prev |-> NoPrev, since |-> RefreshInterval, unsupported |-> FALSE,
               event |-> NoAtt, cache |-> "none"]

\* A node with metrics enabled whose quoting service lists one key.
Init == InitWith([metricsOn |-> TRUE, keyIDs |-> {1}, history |-> FALSE, events |-> FALSE])

\* ----------------------------------------------------------------- helpers
\* A faulty UpdateAttestationMetrics: a failed Update is counted as failed but
\* not as performed.
UpdateAttestationMetricsUncounted(m, e) ==
    IF ~cfg.metricsOn THEN m ELSE
    [performed |-> IF e = NoErr THEN m.performed + 1 ELSE m.performed,
     successful |-> IF e = NoErr THEN m.successful + 1 ELSE m.successful,
     failed |-> IF e = NoErr THEN m.failed ELSE m.failed + 1]

\* UpdateAttestationMetrics: nothing when metrics are disabled; else performed,
\* then failed or successful.
UpdateAttestationMetrics(m, e) ==
    IF ~cfg.metricsOn THEN m ELSE
    [performed |-> m.performed + 1,
     successful |-> IF e = NoErr THEN m.successful + 1 ELSE m.successful,
     failed |-> IF e = NoErr THEN m.failed ELSE m.failed + 1]

\* What an enclave transport call can answer: a dead enclave never replies.
EnclaveOutcomes == IF exited THEN {"err"} ELSE {"ok", "err"}

Call(name, res) == Ev(name, "", NoBundle, res)

\* The locals at the entry of updateCapabilityTEE.
AttestLoc(trigger) == [InitLoc EXCEPT !.phase = "attest", !.trigger = trigger]

\* teeState.updateTargetInfo: where impl.Init starts, by implementation.
InitEntry(i) ==
    CASE i = "ECDSA" -> "ec_reg"
      [] i = "EPID"  -> "epid_init"
      [] i = "Mock"  -> "mock_init"
      [] OTHER       -> "ret"

Logged(l, evs) == [l EXCEPT !.log = @ \o evs]
Failed(l, evs, e) == [l EXCEPT !.log = @ \o evs, !.err = e]

\* An updateCapabilityTEE of goroutine p has been entered and has not returned.
InFlight(p) == loc[p].phase = "attest" /\ pc[p] # "ret"

\* ------------------------------------------------------------ environment
\* Time passes; the ticker delivers into its one-slot channel when due.
Tick ==
    /\ now < MaxTime
    /\ now' = now + TickStep
    /\ ticker' = IF ticker.running /\ now' >= ticker.next
                 THEN [ticker EXCEPT !.pending = TRUE,
                                     !.next = @ + ((now' - @) \div RuntimeAttestInterval + 1)
                                                  * RuntimeAttestInterval]
                 ELSE ticker
    /\ hist' = [hist EXCEPT !.sinceReset = Min(@ + TickStep, RuntimeAttestInterval),
                            !.since = IF cfg.history THEN Min(@ + TickStep, RefreshInterval) ELSE @]
    /\ UNCHANGED << pc, loc, impl, key, tcbStore, notifyCh, exited, metrics, platform, cfg >>

\* An explicit re-attestation request: a non-blocking send on the notifier.
Notify ==
    /\ hist.owed < MaxNotify
    /\ notifyCh' = IF notifyCh < NotifyCap THEN notifyCh + 1 ELSE notifyCh
    /\ hist' = IF \E p \in Procs : InFlight(p) THEN [hist EXCEPT !.owed = @ + 1] ELSE hist
    /\ UNCHANGED << pc, loc, impl, key, tcbStore, now, ticker, exited, metrics, platform, cfg >>

\* The enclave process exits: hp.Process.Wait() is closed.
ProcessExit ==
    /\ ~exited
    /\ exited' = TRUE
    /\ UNCHANGED << pc, loc, impl, key, tcbStore, now, ticker, notifyCh, metrics, hist, platform, cfg >>

\* ------------------------------------------------------------- teeState.init
\* A faulty TsInit: an initialized teeState is initialized again.
TsInitAgain ==
    /\ pc["host"] = "ts_init"
    /\ pc' = [pc EXCEPT !["host"] = "ec_reg"]
    /\ loc' = loc
    /\ UNCHANGED << impl, key, tcbStore, now, ticker, notifyCh, exited, metrics, hist, platform, cfg >>

\* teeState.init: refuses an initialized state, else starts with ECDSA.
TsInit ==
    /\ pc["host"] = "ts_init"
    /\ IF impl # "nil"
       THEN /\ pc' = [pc EXCEPT !["host"] = "host_failed"]
            /\ loc' = [loc EXCEPT !["host"] = Failed(@, << >>, Err("already initialized", "state"))]
       ELSE /\ pc' = [pc EXCEPT !["host"] = "ec_reg"]
            /\ loc' = loc
    /\ UNCHANGED << impl, key, tcbStore, now, ticker, notifyCh, exited, metrics, hist, platform, cfg >>

\* A faulty InitFailed: teeState.init falls back to EPID only when the registry
\* does not allow PCS.
InitFailedOnlyWithoutPcs(p, from, evs, e) ==
    /\ pc' = [pc EXCEPT ![p] = IF loc[p].phase = "init"
                                THEN (IF from = "ECDSA" /\ e.cause = "nopcs" THEN "epid_init"
                                      ELSE "host_failed")
                                ELSE "ret"]
    /\ loc' = [loc EXCEPT ![p] = Failed(@, evs, e)]
    /\ UNCHANGED << impl, key, tcbStore, now, ticker, notifyCh, exited, metrics, hist, platform, cfg >>

\* A faulty InitFailed: a failed ECDSA Init falls back to EPID also when it was
\* re-run by teeState.updateTargetInfo.
InitFailedAlwaysFallsBack(p, from, evs, e) ==
    /\ pc' = [pc EXCEPT ![p] = IF from = "ECDSA" THEN "epid_init"
                                ELSE IF loc[p].phase = "init" THEN "host_failed" ELSE "ret"]
    /\ loc' = [loc EXCEPT ![p] = Failed(@, evs, e)]
    /\ UNCHANGED << impl, key, tcbStore, now, ticker, notifyCh, exited, metrics, hist, platform, cfg >>

\* An implementation's Init failed: teeState.init falls back from ECDSA to
\* EPID, teeState.updateTargetInfo fails the attestation.
InitFailed(p, from, evs, e) ==
    /\ pc' = [pc EXCEPT ![p] = IF loc[p].phase = "init"
                                THEN (IF from = "ECDSA" THEN "epid_init" ELSE "host_failed")
                                ELSE "ret"]
    /\ loc' = [loc EXCEPT ![p] = Failed(@, evs, e)]
    /\ UNCHANGED << impl, key, tcbStore, now, ticker, notifyCh, exited, metrics, hist, platform, cfg >>

\* A faulty EcReg: the registry's PCS flag is not looked at.
EcRegIgnoresPcs(p) ==
    /\ pc[p] = "ec_reg"
    /\ \E r \in {"err", "nopcs", "pcs"} :
         IF r # "err"
         THEN /\ pc' = [pc EXCEPT ![p] = "ec_keys"]
              /\ loc' = [loc EXCEPT ![p] = Logged(@, << Call("registry", r) >>)]
              /\ UNCHANGED << impl, key, tcbStore, now, ticker, notifyCh, exited, metrics, hist, platform, cfg >>
         ELSE InitFailed(p, "ECDSA", << Call("registry", r) >>,
                         Err("unable to determine registry consensus parameters", "registry"))

\* teeStateECDSA.Init: the registry's consensus parameters.
EcReg(p) ==
    /\ pc[p] = "ec_reg"
    /\ \E r \in {"err", "nopcs", "pcs"} :
         IF r = "pcs"
         THEN /\ pc' = [pc EXCEPT ![p] = "ec_keys"]
              /\ loc' = [loc EXCEPT ![p] = Logged(@, << Call("registry", r) >>)]
              /\ UNCHANGED << impl, key, tcbStore, now, ticker, notifyCh, exited, metrics, hist, platform, cfg >>
         ELSE InitFailed(p, "ECDSA", << Call("registry", r) >>,
                         IF r = "err" THEN Err("unable to determine registry consensus parameters", "registry")
                         ELSE Err("ECDSA not supported by the registry", "nopcs"))

\* teeStateECDSA.Init: the attestation key IDs; the first ECDSA key is taken.
EcKeys(p) ==
    /\ pc[p] = "ec_keys"
    /\ \E k \in cfg.keyIDs \cup {0, -1} :
         IF k > 0
         THEN /\ pc' = [pc EXCEPT ![p] = "ec_ti"]
              /\ loc' = [loc EXCEPT ![p] = [Logged(@, << Call("aesm_keys", "ok") >>) EXCEPT !.newKey = k]]
              /\ UNCHANGED << impl, key, tcbStore, now, ticker, notifyCh, exited, metrics, hist, platform, cfg >>
         ELSE InitFailed(p, "ECDSA", << Call("aesm_keys", IF k = 0 THEN "nokey" ELSE "err") >>,
                         IF k = 0 THEN Err("no suitable ECDSA attestation keys found", "nokey")
                         ELSE Err("unable to fetch attestation key IDs", "aesm"))

\* A faulty newTcbCache: Init keeps the cache object the teeStateECDSA already
\* has and creates one only when it has none.
newTcbCacheOnce(h) == IF h.cache = "none" THEN [h EXCEPT !.cache = "current"] ELSE h

\* newTcbCache in teeStateECDSA.Init: a new cache object over the persistent
\* store replaces the one the teeStateECDSA held.
newTcbCache(h) == [h EXCEPT !.cache = "current"]

\* teeStateECDSA.Init: the QE target info; on success the key is kept, a new
\* cache object is created, and teeState.init selects the ECDSA implementation.
EcTargetInfo(p) ==
    /\ pc[p] = "ec_ti"
    /\ \E r \in {"ok", "err"} :
         IF r = "ok"
         THEN /\ pc' = [pc EXCEPT ![p] = "rakinit"]
              /\ loc' = [loc EXCEPT ![p] = Logged(@, << Call("aesm_targetinfo", "ok") >>)]
              /\ key' = loc[p].newKey
              /\ impl' = IF loc[p].phase = "init" THEN "ECDSA" ELSE impl
              /\ hist' = newTcbCache(hist)
              /\ UNCHANGED << tcbStore, now, ticker, notifyCh, exited, metrics, platform, cfg >>
         ELSE InitFailed(p, "ECDSA", << Call("aesm_targetinfo", "err") >>, Err("target info", "aesm"))

\* teeStateEPID.Init.
EpidInit(p) ==
    /\ pc[p] = "epid_init"
    /\ \E r \in {"ok", "err"} :
         IF r = "ok"
         THEN /\ pc' = [pc EXCEPT ![p] = "rakinit"]
              /\ loc' = [loc EXCEPT ![p] = [Logged(@, << Call("epid_init", "ok") >>) EXCEPT !.err = NoErr]]
              /\ impl' = IF loc[p].phase = "init" THEN "EPID" ELSE impl
              /\ UNCHANGED << key, tcbStore, now, ticker, notifyCh, exited, metrics, hist, platform, cfg >>
         ELSE InitFailed(p, "EPID", << Call("epid_init", "err") >>, Err("EPID initialization failed", "epid"))

\* teeStateMock.Init: only the registry's consensus parameters.
MockInit(p) ==
    /\ pc[p] = "mock_init"
    /\ \E r \in {"err", "nopcs", "pcs"} :
         IF r = "pcs"
         THEN /\ pc' = [pc EXCEPT ![p] = "rakinit"]
              /\ loc' = [loc EXCEPT ![p] = Logged(@, << Call("registry", r) >>)]
              /\ UNCHANGED << impl, key, tcbStore, now, ticker, notifyCh, exited, metrics, hist, platform, cfg >>
         ELSE InitFailed(p, "Mock", << Call("registry", r) >>,
                         IF r = "err" THEN Err("unable to determine registry consensus parameters", "registry")
                         ELSE Err("ECDSA not supported by the registry", "nopcs"))

\* ------------------------------------------------------ updateCapabilityTEE
\* A faulty RakInit: updateCapabilityTEE goes on to teeState.update without
\* asking the enclave for its report.
RakInitSkipsReport(p) ==
    /\ pc[p] = "rakinit"
    /\ \E r \in EnclaveOutcomes :
         /\ IF r = "err"
            THEN /\ pc' = [pc EXCEPT ![p] = IF loc[p].phase = "init" THEN "host_failed" ELSE "ret"]
                 /\ loc' = [loc EXCEPT ![p] = Failed(@, << Call("RakInit", r) >>,
                                                     Err("error while updating TEE target info", "transport"))]
            ELSE /\ pc' = [pc EXCEPT ![p] = IF loc[p].phase = "init" THEN "host_attest" ELSE "update"]
                 /\ loc' = [loc EXCEPT ![p] = Logged(@, << Call("RakInit", r) >>)]
    /\ UNCHANGED << impl, key, tcbStore, now, ticker, notifyCh, exited, metrics, hist, platform, cfg >>

\* sgxProvisioner.updateTargetInfo: the RakInit call, which ends
\* initCapabilityTEE and is the second step of updateCapabilityTEE.
RakInit(p) ==
    /\ pc[p] = "rakinit"
    /\ \E r \in EnclaveOutcomes :
         /\ IF r = "err"
            THEN /\ pc' = [pc EXCEPT ![p] = IF loc[p].phase = "init" THEN "host_failed" ELSE "ret"]
                 /\ loc' = [loc EXCEPT ![p] = Failed(@, << Call("RakInit", r) >>,
                                                     Err("error while updating TEE target info", "transport"))]
            ELSE IF loc[p].phase = "init"
            THEN /\ pc' = [pc EXCEPT ![p] = "host_attest"]
                 /\ loc' = [loc EXCEPT ![p] = Logged(@, << Call("RakInit", r) >>)]
            ELSE /\ pc' = [pc EXCEPT ![p] = "report"]
                 /\ loc' = [loc EXCEPT ![p] = Logged(@, << Call("RakInit", r) >>)]
    /\ UNCHANGED << impl, key, tcbStore, now, ticker, notifyCh, exited, metrics, hist, platform, cfg >>

\* A faulty RakReport: a failed RakReport call is counted as a failed
\* attestation.
RakReportCounted(p) ==
    /\ pc[p] = "report"
    /\ \E r \in EnclaveOutcomes :
         IF r = "err"
         THEN /\ pc' = [pc EXCEPT ![p] = "ret"]
              /\ loc' = [loc EXCEPT ![p] = Failed(@, << Call("RakReport", r) >>,
                              Err("error while requesting worker quote and public RAK", "transport"))]
              /\ metrics' = UpdateAttestationMetrics(metrics, loc'[p].err)
         ELSE /\ pc' = [pc EXCEPT ![p] = "update"]
              /\ loc' = [loc EXCEPT ![p] = Logged(@, << Call("RakReport", r) >>)]
              /\ UNCHANGED metrics
    /\ UNCHANGED << impl, key, tcbStore, now, ticker, notifyCh, exited, hist, platform, cfg >>

\* updateCapabilityTEE: the RakReport call, then the entry of teeState.update.
RakReport(p) ==
    /\ pc[p] = "report"
    /\ \E r \in EnclaveOutcomes :
         IF r = "err"
         THEN /\ pc' = [pc EXCEPT ![p] = "ret"]
              /\ loc' = [loc EXCEPT ![p] = Failed(@, << Call("RakReport", r) >>,
                              Err("error while requesting worker quote and public RAK", "transport"))]
         ELSE IF impl = "nil"
         THEN /\ pc' = [pc EXCEPT ![p] = "ret"]
              /\ loc' = [loc EXCEPT ![p] = Failed(@, << Call("RakReport", r) >>,
                                                  Err("not initialized", "state"))]
         ELSE /\ pc' = [pc EXCEPT ![p] = "update"]
              /\ loc' = [loc EXCEPT ![p] = Logged(@, << Call("RakReport", r) >>)]
    /\ UNCHANGED << impl, key, tcbStore, now, ticker, notifyCh, exited, metrics, hist, platform, cfg >>

\* teeState.update after impl.Update returned: the metrics, then the return.
FinishUpdate(p, l, evs, e, bundle, a) ==
    /\ pc' = [pc EXCEPT ![p] = "ret"]
    /\ loc' = [loc EXCEPT ![p] = [l EXCEPT !.log = @ \o evs, !.err = e, !.tcb = bundle, !.att = a]]
    /\ metrics' = UpdateAttestationMetrics(metrics, e)

\* ------------------------------------------------------ teeStateECDSA.Update
\* GetQuoteEx, then decoding, the signature and certification data checks and
\* PCK verification.
EcGetQuote(p) ==
    /\ pc[p] = "update" /\ impl = "ECDSA"
    /\ \E q \in QuotesOf(platform) \cup {NoQuote} :
         LET e == IF q = NoQuote THEN Err("failed to get quote", "aesm") ELSE quoteChecks(q)
             evs == << Ev("aesm_quote", "", NoBundle, IF q = NoQuote THEN "err" ELSE q.kind) >>
         IN  IF e = NoErr
             THEN /\ pc' = [pc EXCEPT ![p] = "ec_policy"]
                  /\ loc' = [loc EXCEPT ![p] = [Logged(@, evs) EXCEPT !.quote = q]]
                  /\ UNCHANGED metrics
             ELSE FinishUpdate(p, loc[p], evs, e, NoBundle, NoAtt)
    /\ UNCHANGED << impl, key, tcbStore, now, ticker, notifyCh, exited, hist, platform, cfg >>

\* A faulty EcPolicy: the Update goes on with a policy it did not read from
\* the registry.
EcPolicyNotRead(p) ==
    /\ pc[p] = "ec_policy"
    /\ \E pol \in Policies :
         /\ pc' = [pc EXCEPT ![p] = "ec_check"]
         /\ loc' = [loc EXCEPT ![p] = [@ EXCEPT !.policy = pol]]
    /\ UNCHANGED << impl, key, tcbStore, now, ticker, notifyCh, exited, metrics, hist, platform, cfg >>

\* A faulty EcPolicy: when the policy cannot be read, the Update goes on with
\* the most permissive policy.
EcPolicyErrorIgnored(p) ==
    /\ pc[p] = "ec_policy"
    /\ \E pol \in Policies \cup {NoPolicy} :
         /\ pc' = [pc EXCEPT ![p] = "ec_check"]
         /\ loc' = [loc EXCEPT ![p] =
                      [Logged(@, << Call("registry_policy", IF pol = NoPolicy THEN "err" ELSE "ok") >>)
                          EXCEPT !.policy = IF pol = NoPolicy THEN Statuses ELSE pol]]
    /\ UNCHANGED << impl, key, tcbStore, now, ticker, notifyCh, exited, metrics, hist, platform, cfg >>

\* getQuotePolicies: the quote policy from the registry at HeightLatest.
EcPolicy(p) ==
    /\ pc[p] = "ec_policy"
    /\ \E pol \in Policies \cup {NoPolicy} :
         IF pol = NoPolicy
         THEN FinishUpdate(p, loc[p], << Call("registry_policy", "err") >>,
                           Err("quote policy", "registry"), NoBundle, NoAtt)
         ELSE /\ pc' = [pc EXCEPT ![p] = "ec_check"]
              /\ loc' = [loc EXCEPT ![p] = [Logged(@, << Call("registry_policy", "ok") >>)
                                              EXCEPT !.policy = pol]]
              /\ UNCHANGED metrics
    /\ UNCHANGED << impl, key, tcbStore, now, ticker, notifyCh, exited, hist, platform, cfg >>

\* Another Update stands before its GetTCBBundle call for the FMSPC of p's quote.
Overlapping(p) ==
    \E q \in Procs \ {p} :
        pc[q] \in {"ec_fresh", "ec_forced"} /\ loc[q].quote.fmspc = loc[p].quote.fmspc

\* tcbCache.check; with no refresh due the cached bundle is verified at once.
EcCheck(p) ==
    /\ pc[p] = "ec_check"
    /\ LET l == loc[p]
           c == tcbCheck(tcbStore, l.quote.fmspc, now)
           r == UpdateCached(l.quote, l.policy, c.cached, now)
           evc == << Ev("check", IF c.refresh THEN "refresh" ELSE "norefresh", c.cached, "ok") >>
       IN  /\ pc' = [pc EXCEPT ![p] = IF c.refresh THEN "ec_fresh"
                                       ELSE IF r.force THEN "ec_forced" ELSE "rakquote"]
           /\ loc' = [loc EXCEPT ![p] =
                        [@ EXCEPT !.entry = tcbStore[l.quote.fmspc], !.refresh = c.refresh,
                                  !.gap = IF cfg.history THEN hist.since ELSE 0,
                                  !.tcb = IF c.refresh THEN NoBundle ELSE r.tcb,
                                  !.log = @ \o evc \o (IF c.refresh THEN << >> ELSE r.ev),
                                  !.vCached = IF c.refresh THEN ""
                                              ELSE Verdict(l.quote, l.policy, now, c.cached)]]
    /\ hist' = IF cfg.history THEN [hist EXCEPT !.since = 0] ELSE hist
    /\ UNCHANGED << impl, key, tcbStore, now, ticker, notifyCh, exited, metrics, platform, cfg >>

\* The scheduled refresh: GetTCBBundle, then fresh, cached, or the error.
EcFresh(p) ==
    /\ pc[p] = "ec_fresh"
    /\ \E b \in BundlesOf(loc[p].quote.fmspc) \cup {NoBundle} :
         LET l == loc[p]
             r == UpdateScheduled(l.quote, l.policy, l.entry.bundle, b, now)
             evs == << Ev("pcs", "fresh", b, IF b = NoBundle THEN "err" ELSE "ok") >> \o r.ev
             h == [l EXCEPT !.fetched = b, !.vFetched = Verdict(l.quote, l.policy, now, b),
                            !.vCached = Verdict(l.quote, l.policy, now, l.entry.bundle),
                            !.overlap = Overlapping(p)]
         IN  /\ tcbStore' = IF r.store THEN tcbCache(tcbStore, b, l.quote.fmspc, now) ELSE tcbStore
             /\ IF r.err = NoErr
                THEN /\ pc' = [pc EXCEPT ![p] = "rakquote"]
                     /\ loc' = [loc EXCEPT ![p] = [Logged(h, evs) EXCEPT !.tcb = r.tcb]]
                     /\ UNCHANGED metrics
                ELSE FinishUpdate(p, h, evs, r.err, NoBundle, NoAtt)
    /\ UNCHANGED << impl, key, now, ticker, notifyCh, exited, hist, platform, cfg >>

\* A faulty EcForced: a failed forced download is tried again.
EcForcedRetry(p) ==
    /\ pc[p] = "ec_forced"
    /\ \E b \in BundlesOf(loc[p].quote.fmspc) \cup {NoBundle} :
         LET l == loc[p]
             r == UpdateForced(l.quote, l.policy, b, now)
             evs == << Ev("pcs", "downloaded", b, IF b = NoBundle THEN "err" ELSE "ok") >> \o r.ev
             h == [l EXCEPT !.fetched = b, !.vFetched = Verdict(l.quote, l.policy, now, b),
                            !.overlap = Overlapping(p)]
         IN  /\ tcbStore' = IF r.store THEN tcbCache(tcbStore, b, l.quote.fmspc, now) ELSE tcbStore
             /\ pc' = [pc EXCEPT ![p] = IF r.err = NoErr THEN "rakquote" ELSE "ec_forced"]
             /\ loc' = [loc EXCEPT ![p] = [Logged(h, evs) EXCEPT !.tcb = r.tcb]]
    /\ UNCHANGED << impl, key, now, ticker, notifyCh, exited, metrics, hist, platform, cfg >>

\* The forced download after the cached bundle failed with no refresh due.
EcForced(p) ==
    /\ pc[p] = "ec_forced"
    /\ \E b \in BundlesOf(loc[p].quote.fmspc) \cup {NoBundle} :
         LET l == loc[p]
             r == UpdateForced(l.quote, l.policy, b, now)
             evs == << Ev("pcs", "downloaded", b, IF b = NoBundle THEN "err" ELSE "ok") >> \o r.ev
             h == [l EXCEPT !.fetched = b, !.vFetched = Verdict(l.quote, l.policy, now, b),
                            !.overlap = Overlapping(p)]
         IN  /\ tcbStore' = IF r.store THEN tcbCache(tcbStore, b, l.quote.fmspc, now) ELSE tcbStore
             /\ IF r.err = NoErr
                THEN /\ pc' = [pc EXCEPT ![p] = "rakquote"]
                     /\ loc' = [loc EXCEPT ![p] = [Logged(h, evs) EXCEPT !.tcb = r.tcb]]
                     /\ UNCHANGED metrics
                ELSE FinishUpdate(p, h, evs, r.err, NoBundle, NoAtt)
    /\ UNCHANGED << impl, key, now, ticker, notifyCh, exited, hist, platform, cfg >>

\* A faulty Attestation: the response's height and signature change places.
AttestationSwapped(q, bundle, h, sg) ==
    [quote |-> q, tcb |-> bundle, height |-> sg, signature |-> h,
     version |-> LatestSGXAttestationVersion]

\* The attestation assembled from the raw quote, the selected bundle and the
\* RakQuote response.
Attestation(q, bundle, h, sg) ==
    [quote |-> q, tcb |-> bundle, height |-> h, signature |-> sg,
     version |-> LatestSGXAttestationVersion]

\* What the enclave can answer to RakQuote: an error, a body without the
\* RakQuote response, or a response with a height and a signature.
RakQuoteRsps ==
    IF exited THEN {[kind |-> "err", h |-> 0, sig |-> 0]}
    ELSE {[kind |-> "err", h |-> 0, sig |-> 0], [kind |-> "nilrsp", h |-> 0, sig |-> 0],
          [kind |-> "ok", h |-> 1, sig |-> 2], [kind |-> "ok", h |-> 2, sig |-> 1]}

\* A faulty RakQuote: when the call fails, the cache entry of the quote's FMSPC
\* is put back to what the Update found at its lookup.
RakQuoteRollsBack(p) ==
    /\ pc[p] = "rakquote"
    /\ \E r \in RakQuoteRsps :
         LET l == loc[p]
             e == IF r.kind = "err" THEN Err("error while configuring quote", "transport")
                  ELSE IF r.kind = "nilrsp" THEN Err("unexpected response from runtime", "transport")
                  ELSE NoErr
         IN  /\ FinishUpdate(p, [l EXCEPT !.rsp = r], << Ev("RakQuote", "", l.tcb, r.kind) >>, e, l.tcb,
                             IF e = NoErr THEN Attestation(l.quote, l.tcb, r.h, r.sig) ELSE NoAtt)
             /\ tcbStore' = IF e # NoErr /\ impl = "ECDSA"
                            THEN [tcbStore EXCEPT ![l.quote.fmspc] = l.entry]
                            ELSE tcbStore
    /\ UNCHANGED << impl, key, now, ticker, notifyCh, exited, hist, platform, cfg >>

\* The RakQuote call with the quote and the selected bundle, and the
\* attestation built from the response.
RakQuote(p) ==
    /\ pc[p] = "rakquote"
    /\ \E r \in RakQuoteRsps :
         LET l == loc[p]
             e == IF r.kind = "err" THEN Err("error while configuring quote", "transport")
                  ELSE IF r.kind = "nilrsp" THEN Err("unexpected response from runtime", "transport")
                  ELSE NoErr
         IN  FinishUpdate(p, [l EXCEPT !.rsp = r], << Ev("RakQuote", "", l.tcb, r.kind) >>, e, l.tcb,
                          IF e = NoErr THEN Attestation(l.quote, l.tcb, r.h, r.sig) ELSE NoAtt)
    /\ UNCHANGED << impl, key, tcbStore, now, ticker, notifyCh, exited, hist, platform, cfg >>

\* ------------------------------------------------------- teeStateMock.Update
\* teeStateMock.Update, decoding the mock quote up to PCK verification.
mockQuoteChecks(q) ==
    CASE q.kind = "malformed" -> Err("failed to parse quote", "decode")
      [] q.kind = "nonecdsa"  -> Err("unsupported attestation key type", "unsupported")
      [] q.kind = "pck"       -> NoErr
      [] OTHER -> Err("PCK verification failed", "pck")

\* NewMockQuote over the report, then decoding and PCK verification.
MockQuote(p) ==
    /\ pc[p] = "update" /\ impl = "Mock"
    /\ \E q \in QuotesOf(platform) \cup {NoQuote} :
         LET e == IF q = NoQuote THEN Err("failed to get quote", "mock") ELSE mockQuoteChecks(q)
             evs == << Ev("mock_quote", "", NoBundle, IF q = NoQuote THEN "err" ELSE q.kind) >>
         IN  IF e = NoErr
             THEN /\ pc' = [pc EXCEPT ![p] = "mock_pcs"]
                  /\ loc' = [loc EXCEPT ![p] = [Logged(@, evs) EXCEPT !.quote = q]]
                  /\ UNCHANGED metrics
             ELSE FinishUpdate(p, loc[p], evs, e, NoBundle, NoAtt)
    /\ UNCHANGED << impl, key, tcbStore, now, ticker, notifyCh, exited, hist, platform, cfg >>

\* The mock's bundle: whatever PCS serves, taken as it is.
MockSelect(b) ==
    IF b = NoBundle THEN [tcb |-> NoBundle, err |-> Err("pcs", "pcs")]
    ELSE [tcb |-> b, err |-> NoErr]

\* A faulty MockPcs: the mock caches the bundle it downloaded.
MockPcsCaching(p) ==
    /\ pc[p] = "mock_pcs"
    /\ \E b \in BundlesOf(loc[p].quote.fmspc) \cup {NoBundle} :
         LET r == MockSelect(b)
             evs == << Ev("pcs", "mock", b, IF b = NoBundle THEN "err" ELSE "ok") >>
         IN  IF r.err = NoErr
             THEN /\ pc' = [pc EXCEPT ![p] = "rakquote"]
                  /\ loc' = [loc EXCEPT ![p] = [Logged(@, evs) EXCEPT !.tcb = r.tcb]]
                  /\ tcbStore' = tcbCache(tcbStore, b, loc[p].quote.fmspc, now)
                  /\ UNCHANGED metrics
             ELSE /\ FinishUpdate(p, loc[p], evs, r.err, NoBundle, NoAtt)
                  /\ UNCHANGED tcbStore
    /\ UNCHANGED << impl, key, now, ticker, notifyCh, exited, hist, platform, cfg >>

\* GetTCBBundle in teeStateMock.Update.
MockPcs(p) ==
    /\ pc[p] = "mock_pcs"
    /\ \E b \in BundlesOf(loc[p].quote.fmspc) \cup {NoBundle} :
         LET r == MockSelect(b)
             evs == << Ev("pcs", "mock", b, IF b = NoBundle THEN "err" ELSE "ok") >>
         IN  IF r.err = NoErr
             THEN /\ pc' = [pc EXCEPT ![p] = "rakquote"]
                  /\ loc' = [loc EXCEPT ![p] = [Logged(@, evs) EXCEPT !.tcb = r.tcb]]
                  /\ UNCHANGED metrics
             ELSE FinishUpdate(p, loc[p], evs, r.err, NoBundle, NoAtt)
    /\ UNCHANGED << impl, key, tcbStore, now, ticker, notifyCh, exited, hist, platform, cfg >>

\* ------------------------------------------------------- teeStateEPID.Update
EpidAtt == [quote |-> [kind |-> "epid", fmspc |-> 0], tcb |-> NoBundle, height |-> 0, signature |-> 0,
            version |-> 0]

EpidUpdate(p) ==
    /\ pc[p] = "update" /\ impl = "EPID"
    /\ \E r \in {"ok", "err"} :
         FinishUpdate(p, loc[p], << Call("epid_update", r) >>,
                      IF r = "ok" THEN NoErr ELSE Err("EPID attestation failed", "epid"),
                      NoBundle, IF r = "ok" THEN EpidAtt ELSE NoAtt)
    /\ UNCHANGED << impl, key, tcbStore, now, ticker, notifyCh, exited, hist, platform, cfg >>

\* ----------------------------------------------------------- hostInitializer
\* The history when an Init or an attestation has returned: a cache object it
\* created is, from then on, one of an earlier attestation.
Aged(h) == IF h.cache = "current" THEN [h EXCEPT !.cache = "earlier"] ELSE h

\* The history after the attestation with locals l has returned.
Remembered(h, l) ==
    IF cfg.history /\ \E i \in 1..Len(l.log) : l.log[i].op = "check"
    THEN [Aged(h) EXCEPT !.prev = [any |-> TRUE,
                             fetches |-> Cardinality({i \in 1..Len(l.log) : l.log[i].op = "pcs"}),
                             stored |-> \E i \in 1..Len(l.log) : l.log[i].op = "cache"]]
    ELSE Aged(h)

\* A faulty HostAttest: the attestation worker is started before the first
\* updateCapabilityTEE instead of after it.
HostAttestWorkerFirst ==
    /\ pc["host"] = "host_attest"
    /\ pc' = [pc EXCEPT !["host"] = InitEntry(impl), !["worker"] = "start"]
    /\ loc' = [loc EXCEPT !["host"] = AttestLoc("first")]
    /\ hist' = Aged(hist)
    /\ UNCHANGED << impl, key, tcbStore, now, ticker, notifyCh, exited, metrics, platform, cfg >>

\* hostInitializer after initCapabilityTEE: the first updateCapabilityTEE.
HostAttest ==
    /\ pc["host"] = "host_attest"
    /\ pc' = [pc EXCEPT !["host"] = InitEntry(impl)]
    /\ loc' = [loc EXCEPT !["host"] = AttestLoc("first")]
    /\ hist' = Aged(hist)
    /\ UNCHANGED << impl, key, tcbStore, now, ticker, notifyCh, exited, metrics, platform, cfg >>

\* A faulty HostReturn: the attestation worker is started whatever the first
\* updateCapabilityTEE returned.
HostReturnStartsAnyway ==
    /\ pc["host"] = "ret"
    /\ pc' = IF loc["host"].err # NoErr
             THEN [pc EXCEPT !["host"] = "host_failed", !["worker"] = "start"]
             ELSE [pc EXCEPT !["host"] = "host_done", !["worker"] = "start"]
    /\ loc' = [loc EXCEPT !["host"] = InitLoc]
    /\ hist' = Remembered(hist, loc["host"])
    /\ UNCHANGED << impl, key, tcbStore, now, ticker, notifyCh, exited, metrics, platform, cfg >>

\* hostInitializer after the first updateCapabilityTEE: an error ends it,
\* success starts the attestation worker.
HostReturn ==
    /\ pc["host"] = "ret"
    /\ pc' = IF loc["host"].err # NoErr
             THEN [pc EXCEPT !["host"] = "host_failed"]
             ELSE [pc EXCEPT !["host"] = "host_done", !["worker"] = "start"]
    /\ loc' = [loc EXCEPT !["host"] = InitLoc]
    /\ hist' = Remembered(hist, loc["host"])
    /\ UNCHANGED << impl, key, tcbStore, now, ticker, notifyCh, exited, metrics, platform, cfg >>

\* -------------------------------------------------------- attestationWorker
\* The worker creates its ticker and enters the loop.
WorkerStart ==
    /\ pc["worker"] = "start"
    /\ pc' = [pc EXCEPT !["worker"] = "select"]
    /\ ticker' = [running |-> TRUE, next |-> now + RuntimeAttestInterval, pending |-> FALSE]
    /\ UNCHANGED << loc, impl, key, tcbStore, now, notifyCh, exited, metrics, hist, platform, cfg >>

\* The history when the worker starts an attestation: the event of its last
\* return is kept only until then.
Forgotten(h) == IF cfg.events THEN [h EXCEPT !.event = NoAtt] ELSE h

\* The locals and the first step of an updateCapabilityTEE the worker starts.
EnterAttest(trigger, coalesced) ==
    /\ pc' = [pc EXCEPT !["worker"] = InitEntry(impl)]
    /\ loc' = [loc EXCEPT !["worker"] =
                 [AttestLoc(trigger) EXCEPT !.coalesced = coalesced,
                                            !.err = IF impl = "nil" THEN Err("not initialized", "state")
                                                    ELSE NoErr]]

\* A faulty WorkerSelectExit: the exit of the process is served only when no
\* tick and no request is waiting.
WorkerSelectExitLast ==
    /\ pc["worker"] = "select" /\ exited
    /\ ~ticker.pending /\ notifyCh = 0
    /\ pc' = [pc EXCEPT !["worker"] = "terminated"]
    /\ ticker' = [ticker EXCEPT !.running = FALSE]
    /\ UNCHANGED << loc, impl, key, tcbStore, now, notifyCh, exited, metrics, hist, platform, cfg >>

\* select: the process has terminated.
WorkerSelectExit ==
    /\ pc["worker"] = "select" /\ exited
    /\ pc' = [pc EXCEPT !["worker"] = "terminated"]
    /\ ticker' = [ticker EXCEPT !.running = FALSE]
    /\ UNCHANGED << loc, impl, key, tcbStore, now, notifyCh, exited, metrics, hist, platform, cfg >>

\* A faulty WorkerSelectTick: a tick is also served after the worker returned.
WorkerSelectTickAnyway ==
    /\ pc["worker"] \in {"select", "terminated"} /\ ticker.pending
    /\ metrics.performed <= MaxAttest /\ hist.emitted < MaxAttest
    /\ ticker' = [ticker EXCEPT !.pending = FALSE]
    /\ EnterAttest("tick", 0)
    /\ hist' = Forgotten(hist)
    /\ UNCHANGED << impl, key, tcbStore, now, notifyCh, exited, metrics, platform, cfg >>

\* select: a tick of the periodic ticker.
WorkerSelectTick ==
    /\ pc["worker"] = "select" /\ ticker.pending
    /\ metrics.performed <= MaxAttest /\ hist.emitted < MaxAttest
    /\ ticker' = [ticker EXCEPT !.pending = FALSE]
    /\ EnterAttest("tick", 0)
    /\ hist' = Forgotten(hist)
    /\ UNCHANGED << impl, key, tcbStore, now, notifyCh, exited, metrics, platform, cfg >>

\* A faulty WorkerSelectNotify: the request is looked at but left in the
\* notifier.
WorkerSelectNotifyKeep ==
    /\ pc["worker"] = "select" /\ notifyCh > 0
    /\ metrics.performed <= MaxAttest /\ hist.emitted < MaxAttest
    /\ \E stale \in {ticker.pending, FALSE} :
         ticker' = [ticker EXCEPT !.next = now + RuntimeAttestInterval, !.pending = stale]
    /\ EnterAttest("notify", hist.owed)
    /\ hist' = Forgotten([hist EXCEPT !.owed = 0, !.sinceReset = 0])
    /\ UNCHANGED << impl, key, tcbStore, now, notifyCh, exited, metrics, platform, cfg >>

\* select: an explicit request; the ticker is reset.  Ticker.Reset restarts the
\* period; whether a tick already waiting in the ticker's channel survives it
\* depends on the Go runtime the node is built with (kept before Go 1.23,
\* discarded since), so both outcomes are possible.
WorkerSelectNotify ==
    /\ pc["worker"] = "select" /\ notifyCh > 0
    /\ metrics.performed <= MaxAttest /\ hist.emitted < MaxAttest
    /\ notifyCh' = notifyCh - 1
    /\ \E stale \in {ticker.pending, FALSE} :
         ticker' = [ticker EXCEPT !.next = now + RuntimeAttestInterval, !.pending = stale]
    /\ EnterAttest("notify", hist.owed)
    /\ hist' = Forgotten([hist EXCEPT !.owed = 0, !.sinceReset = 0])
    /\ UNCHANGED << impl, key, tcbStore, now, exited, metrics, platform, cfg >>

\* A faulty Emitted: the event carries no attestation.
EmittedEmpty(h, l) == h

\* EmitEvent in the worker: the Updated event carries the CapabilityTEE that
\* updateCapabilityTEE returned; with no event, none is kept.
Emitted(h, l) ==
    IF cfg.events THEN [h EXCEPT !.event = IF l.err = NoErr THEN l.att ELSE NoAtt] ELSE h

\* A faulty WorkerReturn: an error of updateCapabilityTEE ends the worker.
WorkerReturnStopOnError ==
    /\ pc["worker"] = "ret"
    /\ pc' = [pc EXCEPT !["worker"] = IF loc["worker"].err = NoErr THEN "select" ELSE "terminated"]
    /\ hist' = LET h == Emitted(Remembered(hist, loc["worker"]), loc["worker"]) IN
               IF loc["worker"].err = NoErr THEN [h EXCEPT !.emitted = @ + 1]
               ELSE IF cfg.history /\ loc["worker"].err.cause = "unsupported"
               THEN [h EXCEPT !.unsupported = TRUE]
               ELSE h
    /\ loc' = [loc EXCEPT !["worker"] = InitLoc]
    /\ UNCHANGED << impl, key, tcbStore, now, ticker, notifyCh, exited, metrics, platform, cfg >>

\* The worker after updateCapabilityTEE: an error is logged, a success is
\* emitted as an Updated event; then the loop goes on.
WorkerReturn ==
    /\ pc["worker"] = "ret"
    /\ pc' = [pc EXCEPT !["worker"] = "select"]
    /\ hist' = LET h == Emitted(Remembered(hist, loc["worker"]), loc["worker"]) IN
               IF loc["worker"].err = NoErr THEN [h EXCEPT !.emitted = @ + 1]
               ELSE IF cfg.history /\ loc["worker"].err.cause = "unsupported"
               THEN [h EXCEPT !.unsupported = TRUE]
               ELSE h
    /\ loc' = [loc EXCEPT !["worker"] = InitLoc]
    /\ UNCHANGED << impl, key, tcbStore, now, ticker, notifyCh, exited, metrics, platform, cfg >>

\* ------------------------------------------- the teeState's methods, called
\* directly.  A caller holding a teeState calls init, updateTargetInfo and
\* update on it in any order; pc["host"] = "caller" is the caller between two
\* calls, "rakinit" a returned Init, "host_failed" a failed teeState.init and
\* "ret" a returned update or a failed updateTargetInfo.
CallInit ==
    /\ pc["host"] = "caller"
    /\ pc' = [pc EXCEPT !["host"] = "ts_init"]
    /\ loc' = [loc EXCEPT !["host"] = [InitLoc EXCEPT !.phase = "init"]]
    /\ UNCHANGED << impl, key, tcbStore, now, ticker, notifyCh, exited, metrics, hist, platform, cfg >>

\* teeState.updateTargetInfo: refuses a teeState with no implementation, else
\* runs the implementation's Init.
CallUpdateTargetInfo ==
    /\ pc["host"] = "caller"
    /\ pc' = [pc EXCEPT !["host"] = InitEntry(impl)]
    /\ loc' = [loc EXCEPT !["host"] =
                 [AttestLoc("updateTargetInfo") EXCEPT
                     !.err = IF impl = "nil" THEN Err("not initialized", "state") ELSE NoErr]]
    /\ UNCHANGED << impl, key, tcbStore, now, ticker, notifyCh, exited, metrics, hist, platform, cfg >>

\* A faulty CallUpdate: the implementation is used without being looked at.
CallUpdateUnguarded ==
    /\ pc["host"] = "caller"
    /\ metrics.performed <= MaxAttest
    /\ pc' = [pc EXCEPT !["host"] = "update"]
    /\ loc' = [loc EXCEPT !["host"] = AttestLoc("update")]
    /\ UNCHANGED << impl, key, tcbStore, now, ticker, notifyCh, exited, metrics, hist, platform, cfg >>

\* teeState.update: refuses a teeState with no implementation, before the
\* implementation's Update and the metrics; else runs the Update.
CallUpdate ==
    /\ pc["host"] = "caller"
    /\ metrics.performed <= MaxAttest
    /\ IF impl = "nil"
       THEN /\ pc' = [pc EXCEPT !["host"] = "ret"]
            /\ loc' = [loc EXCEPT !["host"] =
                         [AttestLoc("update") EXCEPT !.err = Err("not initialized", "state")]]
       ELSE /\ pc' = [pc EXCEPT !["host"] = "update"]
            /\ loc' = [loc EXCEPT !["host"] = AttestLoc("update")]
    /\ UNCHANGED << impl, key, tcbStore, now, ticker, notifyCh, exited, metrics, hist, platform, cfg >>

\* teeState.update of a second runtime of the host, whose teeState selected
\* ECDSA with the same quoting service: it shares the TCB cache's store, the
\* PCS client and the clock with the first.
PeerUpdate ==
    /\ pc["peer"] = "off" /\ impl = "ECDSA"
    /\ metrics.performed <= MaxAttest
    /\ pc' = [pc EXCEPT !["peer"] = "update"]
    /\ loc' = [loc EXCEPT !["peer"] = AttestLoc("update")]
    /\ UNCHANGED << impl, key, tcbStore, now, ticker, notifyCh, exited, metrics, hist, platform, cfg >>

\* The second runtime's update has returned.
PeerReturn ==
    /\ pc["peer"] = "ret"
    /\ pc' = [pc EXCEPT !["peer"] = "off"]
    /\ loc' = [loc EXCEPT !["peer"] = InitLoc]
    /\ UNCHANGED << impl, key, tcbStore, now, ticker, notifyCh, exited, metrics, hist, platform, cfg >>

\* The call has returned to the caller.
CallReturn ==
    /\ pc["host"] \in {"rakinit", "host_failed", "ret"}
    /\ pc' = [pc EXCEPT !["host"] = "caller"]
    /\ loc' = [loc EXCEPT !["host"] = InitLoc]
    /\ hist' = Remembered(hist, loc["host"])
    /\ UNCHANGED << impl, key, tcbStore, now, ticker, notifyCh, exited, metrics, platform, cfg >>

\* --------------------------------------------------------------- properties
\* The attestation of goroutine p has looked the quote's FMSPC up in the cache.
Checked(l) == \E i \in 1..Len(l.log) : l.log[i].op = "check"

\* The number of PCS downloads an attestation has made.
Fetches(l) == Cardinality({i \in 1..Len(l.log) : l.log[i].op = "pcs"})

\* The bundle selection of the attestation has ended.
Selected(p) == pc[p] \in {"rakquote", "ret"} /\ Checked(loc[p])

\* The cause verifyBundle reports for a verdict.
CauseOf(v) == IF v = "none" THEN "nilBundle" ELSE v

\* C1: in an ECDSA Update whose cache lookup reports a refresh due (also when
\* there is no entry), a bundle is downloaded from PCS; if the downloaded
\* bundle verifies, it is the cache entry of the quote's FMSPC and the bundle
\* selected for, and embedded in, the attestation.
C1_FreshStoredAndUsed ==
    \A p \in Procs :
        LET l == loc[p] IN
        (Selected(p) /\ l.refresh) =>
            /\ Fetches(l) >= 1
            /\ l.vFetched = "ok" =>
                 /\ tcbStore[l.quote.fmspc].bundle = l.fetched
                 /\ (pc[p] = "rakquote" \/ l.err = NoErr) => l.tcb = l.fetched
                 /\ l.att # NoAtt => l.att.tcb = l.fetched

C1_Witness ==
    \E p \in Procs :
        LET l == loc[p] IN
        /\ pc[p] = "ret" /\ l.refresh /\ l.vFetched = "ok" /\ l.att # NoAtt
        /\ l.entry # NoEntry /\ l.entry.bundle # l.fetched

\* C2: in an ECDSA Update with a scheduled refresh due, where the download
\* fails or the downloaded bundle fails verification while the cached bundle
\* verifies, the cached bundle is selected and embedded in the attestation,
\* the cache entry is left as it was, and only a failing RakQuote call to the
\* enclave can still fail the Update.
C2_CachedFallback ==
    \A p \in Procs :
        LET l == loc[p] IN
        (Selected(p) /\ l.refresh /\ l.vFetched # "ok" /\ l.vCached = "ok") =>
            /\ tcbStore[l.quote.fmspc] = l.entry
            /\ (pc[p] = "rakquote" \/ l.err = NoErr) => l.tcb = l.entry.bundle
            /\ l.att # NoAtt => l.att.tcb = l.entry.bundle
            /\ pc[p] = "ret" => (l.err = NoErr /\ l.att # NoAtt) \/ l.err.cause = "transport"

C2_Witness ==
    \E p \in Procs :
        LET l == loc[p] IN
        /\ pc[p] = "ret" /\ l.refresh /\ l.vFetched # "ok" /\ l.vCached = "ok"
        /\ l.att # NoAtt /\ l.err = NoErr

\* C3: in an ECDSA Update with no scheduled refresh due whose cached bundle
\* does not verify, exactly one download is forced; the downloaded bundle
\* becomes the cache entry if it verifies and the entry stays as it was if it
\* does not; a failed download or verification fails the Update.
C3_ForcedFetch ==
    \A p \in Procs :
        LET l == loc[p] IN
        (Selected(p) /\ ~l.refresh /\ l.vCached # "ok") =>
            /\ Fetches(l) = 1
            /\ l.vFetched = "ok" => tcbStore[l.quote.fmspc].bundle = l.fetched
            /\ l.vFetched # "ok" =>
                 /\ tcbStore[l.quote.fmspc] = l.entry
                 /\ pc[p] = "ret" /\ l.err # NoErr /\ l.att = NoAtt

C3_Witness ==
    \E p \in Procs :
        LET l == loc[p] IN
        /\ pc[p] = "ret" /\ Checked(l) /\ ~l.refresh /\ l.vCached \notin {"ok", "none"}
        /\ l.vFetched = "ok" /\ l.att # NoAtt

\* C4: in an ECDSA Update whose scheduled refresh download ran and where both
\* the fresh and the cached bundle fail verification, the Update fails with the
\* error of the cached bundle's verification (the TCB out-of-date error when
\* the cached bundle is out of date), after that one download, and the cache
\* entry is left as it was.
C4_BothFail ==
    \A p \in Procs :
        LET l == loc[p] IN
        (Selected(p) /\ l.refresh /\ l.vFetched # "ok" /\ l.vCached # "ok") =>
            /\ pc[p] = "ret" /\ l.att = NoAtt
            /\ l.err # NoErr /\ l.err.cause = CauseOf(l.vCached)
            /\ Fetches(l) = 1
            /\ tcbStore[l.quote.fmspc] = l.entry

C4_Witness ==
    \E p \in Procs :
        LET l == loc[p] IN
        /\ pc[p] = "ret" /\ l.refresh /\ l.vCached = "tcbOutOfDate"
        /\ l.vFetched = "invalid" /\ l.err.cause = "tcbOutOfDate"

\* C5: an Update downloads from PCS at most once when no scheduled refresh is
\* due and at most twice when one is due, whatever the downloads and the
\* verifications answer.
C5_FetchBound ==
    \A p \in Procs : Fetches(loc[p]) <= IF loc[p].refresh THEN 2 ELSE 1

C5_Witness ==
    \E p \in Procs :
        /\ pc[p] = "ret" /\ Checked(loc[p]) /\ ~loc[p].refresh
        /\ Fetches(loc[p]) = 1 /\ loc[p].err # NoErr

\* C6: whenever a cache entry changes, the bundle written is one an ECDSA
\* Update has just downloaded and that verifies against that Update's quote
\* and policy; a failed download or a bundle that fails verification is never
\* written.
C6_OnlyVerifiedStored ==
    [][\A f \in FMSPCs :
         tcbStore'[f] # tcbStore[f] =>
            \E p \in Procs :
               /\ pc[p] \in {"ec_fresh", "ec_forced"} /\ loc[p].quote.fmspc = f
               /\ tcbStore'[f].bundle # NoBundle
               /\ tcbStore'[f].bundle = loc'[p].fetched
               /\ QuoteVerify(loc[p].quote, loc[p].policy, now, tcbStore'[f].bundle) = "ok"]_vars

C6_Witness ==
    \E p \in Procs :
        LET l == loc[p] IN
        /\ l.entry # NoEntry /\ l.fetched # NoBundle /\ l.vFetched # "ok"
        /\ tcbStore[l.quote.fmspc] = l.entry

\* The bundle embedded in the attestation of l passed verification in the
\* Update that produced it.
EmbeddedVerified(l) ==
    /\ \E i \in 1..Len(l.log) :
          l.log[i].op = "verify" /\ l.log[i].b = l.att.tcb /\ l.log[i].res = "ok"
    /\ \/ l.att.tcb = l.fetched /\ l.vFetched = "ok"
       \/ l.att.tcb = l.entry.bundle /\ l.vCached = "ok"

C8_OneInFlight ==
    /\ Cardinality({p \in Procs : InFlight(p)}) <= 1
    /\ pc["worker"] # "off" => pc["host"] = "host_done"

C8_Witness ==
    /\ pc["host"] = "host_done" /\ InFlight("worker") /\ hist.emitted >= 1

\* C9: the requests sent while an attestation is in progress, however many,
\* leave one request in the notifier, and the attestation the worker starts
\* on receiving it leaves none: one follow-up attestation serves them all.
C9_Coalesced ==
    /\ notifyCh <= 1
    /\ hist.owed >= 1 => notifyCh = 1
    /\ (InFlight("worker") /\ loc["worker"].trigger = "notify" /\ hist.owed = 0) => notifyCh = 0

C9_Witness ==
    /\ InFlight("worker") /\ loc["worker"].trigger = "notify"
    /\ loc["worker"].coalesced >= 2 /\ notifyCh = 0 /\ hist.owed = 0

\* C10: a re-attestation the worker starts on a timer tick starts no earlier
\* than one full attest interval after the last explicit request it received.
C10_TickAfterFullInterval ==
    [][(pc["worker"] = "select" /\ loc'["worker"].trigger = "tick")
          => hist.sinceReset >= RuntimeAttestInterval]_vars


\* C11: an error of updateCapabilityTEE never ends the worker: whatever the
\* attestation returned, the worker goes back to its select, and it returns
\* only from the select, on the exit of the process.
C11_FailureKeepsWorker ==
    [][/\ (pc["worker"] = "ret" /\ pc'["worker"] # "ret") => pc'["worker"] = "select"
       /\ (pc'["worker"] = "terminated" /\ pc["worker"] # "terminated")
             => (pc["worker"] = "select" /\ exited)]_vars

C11_Witness ==
    /\ InFlight("worker") /\ metrics.failed >= 1 /\ ~exited

\* C12: once the worker has returned on the exit of the process, it starts no
\* attestation, makes no call, changes neither the cache nor the counters and
\* emits no Updated event, whatever ticks or requests are waiting.
C12_TerminatedAbsorbing ==
    [][pc["worker"] = "terminated" =>
          /\ pc'["worker"] = "terminated" /\ loc' = loc
          /\ metrics' = metrics /\ tcbStore' = tcbStore
          /\ hist'.emitted = hist.emitted]_vars

C12_Witness ==
    /\ pc["worker"] = "terminated" /\ notifyCh = 1 /\ ticker.pending

\* The number of registry and PCS calls an attestation has made.
NetCalls(l) ==
    Cardinality({i \in 1..Len(l.log) : l.log[i].op \in {"registry", "registry_policy", "pcs"}})

\* The enclave answered a call of this attestation: the process was alive
\* while the attestation was in progress.
AnsweredByEnclave(l) ==
    \E i \in 1..Len(l.log) : l.log[i].op \in {"RakInit", "RakReport"} /\ l.log[i].res = "ok"

\* C13: when the process exits while the worker's attestation is in progress,
\* that attestation makes no further registry or PCS call.
C13_NoCallsAfterExit ==
    [][(exited /\ loc["worker"].phase = "attest" /\ AnsweredByEnclave(loc["worker"])
          /\ loc'["worker"].phase = "attest")
          => NetCalls(loc'["worker"]) <= NetCalls(loc["worker"])]_vars

\* Goroutine p is inside impl.Update, and the step ends that Update.
InUpdate(p) ==
    pc[p] \in {"update", "ec_policy", "ec_check", "ec_fresh", "ec_forced", "rakquote", "mock_pcs"}
UpdateEnds(p) == InUpdate(p) /\ pc'[p] = "ret"

\* What an Update that ended with error e adds to the counters m.
Counted(m, e) ==
    [performed |-> m.performed + 1,
     successful |-> m.successful + (IF e = NoErr THEN 1 ELSE 0),
     failed |-> m.failed + (IF e = NoErr THEN 0 ELSE 1)]

\* C14 as stated: every Update adds one to performed and one to exactly one of
\* successful and failed, so that performed = successful + failed.
C14_EveryUpdateCounted ==
    [][/\ \A p \in Procs : UpdateEnds(p) => metrics' = Counted(metrics, loc'[p].err)
       /\ metrics'.performed = metrics'.successful + metrics'.failed]_vars

\* C14, amended: with metrics enabled every Update adds one to performed and
\* one to exactly one of successful and failed; with metrics disabled no
\* counter moves; nothing else moves a counter, and performed = successful +
\* failed throughout.
C14_CountedWhenEnabled ==
    [][/\ \A p \in Procs :
            UpdateEnds(p) => metrics' = IF cfg.metricsOn THEN Counted(metrics, loc'[p].err)
                                        ELSE metrics
       /\ (\A p \in Procs : ~UpdateEnds(p)) => metrics' = metrics
       /\ metrics'.performed = metrics'.successful + metrics'.failed]_vars

C14_Witness ==
    /\ cfg.metricsOn /\ metrics.successful >= 2 /\ metrics.failed >= 1

\* The quoting service handed this attestation a quote with PPID
\* certification data, as its i-th logged call.
PpidQuoteAt(l, i) == l.log[i].op = "aesm_quote" /\ l.log[i].res = "ppid"

\* C15: an Update whose quote carries PPID certification data fails with the
\* unsupported error right after the quote is decoded: no policy read, no PCS
\* download and no RakQuote call follow, no attestation is produced and the
\* cache stays as it is.
C15_PpidUnsupported ==
    [][\A p \in Procs : \A i \in 1..Len(loc'[p].log) :
          PpidQuoteAt(loc'[p], i) =>
             /\ i = Len(loc'[p].log) /\ pc'[p] = "ret"
             /\ loc'[p].err = Err("PPID certification data not yet supported", "unsupported")
             /\ loc'[p].att = NoAtt /\ loc'[p].tcb = NoBundle
             /\ tcbStore' = tcbStore]_vars

C15_Witness ==
    \E p \in Procs :
        /\ pc[p] = "ret" /\ Len(loc[p].log) > 0 /\ PpidQuoteAt(loc[p], Len(loc[p].log))
        /\ tcbStore[platform] # NoEntry /\ metrics.failed >= 1

\* C16: the attestation key, once selected by a successful Init, never
\* changes.
C16_KeyImmutable ==
    [][key # 0 => key' = key]_vars

\* Goroutine p is inside teeStateECDSA.Init.
InEcInit(p) == pc[p] \in {"ec_reg", "ec_keys", "ec_ti"}

\* C17 as stated: EPID is selected only when the registry does not allow PCS.
C17_EpidOnlyWithoutPcs ==
    [][(impl' = "EPID" /\ impl # "EPID")
          => loc["host"].log[1] = Call("registry", "nopcs")]_vars

\* C17, amended: teeState.init tries ECDSA first and selects it when its Init
\* succeeds; when its Init fails, for whatever reason, EPID initialization is
\* tried next, and EPID is selected only after such a failure.
C17_EpidAfterAnyEcdsaFailure ==
    [][/\ \A p \in Procs :
            (loc[p].phase = "init" /\ InEcInit(p) /\ pc'[p] # pc[p]) =>
               \/ pc'[p] \in {"ec_keys", "ec_ti"} /\ loc'[p].err = NoErr
               \/ pc'[p] = "rakinit" /\ impl' = "ECDSA"
               \/ pc'[p] = "epid_init" /\ loc'[p].err # NoErr /\ impl' = impl
       /\ (impl' = "EPID" /\ impl # "EPID")
             => (pc["host"] = "epid_init" /\ loc["host"].err # NoErr)
       /\ (impl' = "ECDSA" /\ impl # "ECDSA") => pc["host"] = "ec_ti"]_vars

C17_Witness ==
    /\ impl = "EPID" /\ pc["host"] = "rakinit" /\ loc["host"].phase = "init"
    /\ loc["host"].log[1] = Call("registry", "pcs")

\* C18: when the registry's parameters report PCS disabled at Init, ECDSA
\* initialization fails at once, before any call to the quoting service, and
\* EPID initialization is what runs next.
C18_NoPcsThenEpid ==
    \A p \in Procs :
        LET l == loc[p] IN
        (l.phase = "init" /\ impl # "Mock" /\ Len(l.log) >= 1
            /\ l.log[1] = Call("registry", "nopcs")) =>
            /\ \A i \in 1..Len(l.log) : l.log[i].op \notin {"aesm_keys", "aesm_targetinfo"}
            /\ \/ pc[p] = "epid_init" /\ Len(l.log) = 1
               \/ Len(l.log) >= 2 /\ l.log[2].op = "epid_init"

C18_Witness ==
    /\ impl = "EPID" /\ pc["host"] = "rakinit" /\ loc["host"].phase = "init"
    /\ loc["host"].log[1] = Call("registry", "nopcs")

\* The place of the first op event in the log of l, 0 when there is none.
Pos(l, op) ==
    LET at == {i \in 1..Len(l.log) : l.log[i].op = op}
    IN  IF at = {} THEN 0 ELSE CHOOSE i \in at : \A j \in at : i <= j

\* C19: every bundle verification of an Update comes after a read of the
\* quote policy from the registry in that same Update, and runs under the
\* policy that read returned.
C19_PolicyReadEachUpdate ==
    \A p \in Procs :
        LET l == loc[p]
            po == Pos(l, "registry_policy")
            ve == Pos(l, "verify")
        IN  ve > 0 =>
               /\ po > 0 /\ po < ve /\ l.log[po].res = "ok"
               /\ l.policy \in Policies
               /\ \A i \in ve..Len(l.log) :
                     l.log[i].op = "verify" =>
                        /\ l.log[i].res = "tcbOutOfDate" => l.log[i].b.status \notin l.policy
                        /\ l.log[i].res = "ok" => l.log[i].b.status \in l.policy

C19_Witness ==
    \E p \in Procs :
        LET l == loc[p] IN
        /\ l.trigger \in {"tick", "notify"} /\ l.entry # NoEntry /\ l.policy = {"UpToDate"}
        /\ \E i \in 1..Len(l.log) : l.log[i].op = "verify" /\ l.log[i].res = "tcbOutOfDate"

\* In the log of l, an event at place b (0: none) is preceded by the event at
\* place a, whose result is res.
Follows(l, a, res, b) == b > 0 => (a > 0 /\ a < b /\ l.log[a].res = res)

C21_SharedFetch ==
    \A p \in Procs : \A q \in Procs \ {p} :
        (Selected(p) /\ Selected(q) /\ loc[p].overlap
            /\ loc[p].quote.fmspc = loc[q].quote.fmspc) =>
            Fetches(loc[p]) + Fetches(loc[q]) = 1

C25_UnsupportedTerminal ==
    (impl = "ECDSA" /\ hist.unsupported) => ~InFlight("worker")

\* C23: when the PCS download fails and the cache holds no entry for the
\* quote's FMSPC, the Update fails with the PCS transport error.
C23_PcsErrorSurfaced ==
    \A p \in Procs :
        LET l == loc[p] IN
        (pc[p] = "ret" /\ Checked(l) /\ l.entry = NoEntry
            /\ Fetches(l) >= 1 /\ l.fetched = NoBundle) =>
            /\ l.err # NoErr /\ l.err.cause = "pcs"

\* The cached bundle was verified in the attestation of l.
CachedTried(l) ==
    \E i \in 1..Len(l.log) : l.log[i].op = "verify" /\ l.log[i].which = "cached"

\* C24 as stated: when the fresh bundle fails verification for a reason other
\* than a TCB out-of-date error, the Update fails without trying the cached
\* bundle.
C24_OnlyListedRecovered ==
    \A p \in Procs :
        LET l == loc[p] IN
        (Selected(p) /\ l.refresh /\ l.vFetched = "invalid") =>
            /\ pc[p] = "ret" /\ l.err # NoErr
            /\ ~CachedTried(l)

\* C24, amended: whatever made the fresh bundle of a scheduled refresh fail (a
\* failed download, a TCB out-of-date error or any other verification
\* failure), the cached bundle is verified next, and it is selected when it
\* verifies.
C24_AnyFreshFailureRecovered ==
    \A p \in Procs :
        LET l == loc[p] IN
        (Selected(p) /\ l.refresh /\ l.vFetched # "ok") =>
            /\ CachedTried(l)
            /\ l.vFetched \in {"none", "tcbOutOfDate", "invalid"}
            /\ l.vCached = "ok" =>
                 /\ pc[p] = "rakquote" => l.tcb = l.entry.bundle
                 /\ pc[p] = "ret" => l.err.cause \in {"", "transport"}

C24_Witness ==
    \E p \in Procs :
        LET l == loc[p] IN
        /\ pc[p] = "ret" /\ l.refresh /\ l.vFetched = "invalid" /\ l.vCached = "ok"
        /\ l.att # NoAtt /\ l.att.tcb = l.entry.bundle

C27_AttestationContent ==
    \A p \in Procs :
        LET l == loc[p] IN
        (impl = "ECDSA" /\ l.att # NoAtt) =>
            /\ pc[p] = "ret" /\ l.err = NoErr
            /\ l.att.quote = l.quote /\ l.quote \in QuotesOf(platform)
            /\ l.log[Pos(l, "aesm_quote")].res = l.att.quote.kind
            /\ l.att.tcb = l.tcb /\ l.tcb # NoBundle
            /\ l.rsp.kind = "ok"
            /\ l.att.height = l.rsp.h /\ l.att.signature = l.rsp.sig
            /\ l.att.version = LatestSGXAttestationVersion

C27_Witness ==
    \E p \in Procs :
        /\ impl = "ECDSA" /\ pc[p] = "ret" /\ loc[p].att # NoAtt
        /\ loc[p].att.height = 2 /\ loc[p].att.signature = 1
        /\ loc[p].att.tcb = loc[p].fetched

\* C28: update and updateTargetInfo on a teeState without an implementation
\* (init was not called, or failed) return the not-initialized error at once:
\* no call to the quoting service, PCS, the registry or the enclave is made,
\* and no counter, cache entry or selection changes; so every call an
\* attestation makes is made with an implementation selected.
C28_NotInitialized ==
    [][/\ (pc["host"] = "caller" /\ impl = "nil" /\ loc'["host"].phase = "attest") =>
            /\ pc'["host"] = "ret"
            /\ loc'["host"].err = Err("not initialized", "state")
            /\ loc'["host"].log = << >> /\ loc'["host"].att = NoAtt
            /\ metrics' = metrics /\ tcbStore' = tcbStore /\ impl' = impl /\ key' = key
       /\ \A p \in Procs :
            (loc'[p].phase = "attest" /\ Len(loc'[p].log) > 0) => impl # "nil"]_vars

C28_Witness ==
    /\ impl = "nil" /\ pc["host"] = "ret" /\ loc["host"].trigger = "update"
    /\ loc["host"].err = Err("not initialized", "state") /\ loc["host"].log = << >>

\* C29: init on a teeState that has an implementation returns the
\* already-initialized error at once: no external call is made and the
\* implementation, the key, the cache and the counters stay as they are.
C29_AlreadyInitialized ==
    [][(pc["host"] = "ts_init" /\ impl # "nil") =>
          /\ pc'["host"] = "host_failed"
          /\ loc'["host"].err = Err("already initialized", "state")
          /\ loc'["host"].log = << >>
          /\ impl' = impl /\ key' = key /\ tcbStore' = tcbStore /\ metrics' = metrics]_vars

C29_Witness ==
    /\ impl = "ECDSA" /\ pc["host"] = "host_failed" /\ loc["host"].log = << >>
    /\ loc["host"].err = Err("already initialized", "state") /\ metrics.successful >= 1

\* Goroutine p is inside an implementation's Init.
InImplInit(p) == pc[p] \in {"ec_reg", "ec_keys", "ec_ti", "epid_init", "mock_init"}

\* C30: the implementation teeState.init selected never changes; an Init
\* re-run by updateTargetInfo that fails (the registry has disabled PCS, the
\* quoting service fails) ends that attestation with the error, tries no other
\* variant and leaves the selection as it is.
C30_VariantFixed ==
    [][/\ impl # "nil" => impl' = impl
       /\ \A p \in Procs :
            (loc[p].phase = "attest" /\ InImplInit(p) /\ pc'[p] # pc[p]) =>
               /\ pc[p] = InitEntry(impl) \/ pc[p] \in {"ec_keys", "ec_ti"}
               /\ IF loc'[p].err # NoErr
                  THEN pc'[p] = "ret" /\ loc'[p].att = NoAtt
                  ELSE pc'[p] \in {"ec_keys", "ec_ti", "rakinit"}]_vars

C30_Witness ==
    /\ impl = "ECDSA" /\ pc["worker"] = "ret" /\ loc["worker"].phase = "attest"
    /\ Len(loc["worker"].log) = 1 /\ loc["worker"].log[1] = Call("registry", "nopcs")

\* C31: the attestation worker is started only by a hostInitializer whose
\* initCapabilityTEE and first updateCapabilityTEE have both succeeded, which
\* then returns its StartedEvent; a failure of either makes hostInitializer
\* return an error, and then no worker is started.
C31_WorkerAfterFirstAttestation ==
    [][/\ (pc["worker"] = "off" /\ pc'["worker"] # "off") =>
            /\ pc["host"] = "ret" /\ pc'["host"] = "host_done"
            /\ loc["host"].trigger = "first" /\ loc["host"].err = NoErr
            /\ loc["host"].att # NoAtt /\ impl # "nil"
            /\ AnsweredByEnclave(loc["host"])
       /\ (loc'["host"].phase = "init" /\ loc'["host"].err # NoErr)
             => pc'["host"] \in {"epid_init", "host_failed"}
       /\ (pc["host"] = "ret" /\ loc["host"].err # NoErr /\ pc'["host"] # "ret")
             => pc'["host"] = "host_failed"
       /\ pc'["host"] = "host_failed" => pc'["worker"] = "off"
       /\ pc["host"] = "host_failed" => pc'["host"] = "host_failed"]_vars

C31_Witness ==
    /\ pc["host"] = "host_failed" /\ pc["worker"] = "off"
    /\ impl = "ECDSA" /\ metrics.failed = 1 /\ tcbStore[platform] # NoEntry

\* C32: the worker emits an Updated event exactly when a re-attestation has
\* succeeded: the step that ends a successful re-attestation emits one event,
\* which carries the attestation that re-attestation produced; the step that
\* ends a failed one emits none; and no other step emits an event.
C32_EventIffSuccess ==
    [][/\ (pc["worker"] = "ret" /\ pc'["worker"] # "ret") =>
            IF loc["worker"].err = NoErr
            THEN /\ hist'.emitted = hist.emitted + 1
                 /\ hist'.event = loc["worker"].att /\ hist'.event # NoAtt
            ELSE /\ hist'.emitted = hist.emitted
                 /\ hist'.event = NoAtt /\ loc["worker"].att = NoAtt
       /\ (hist'.emitted # hist.emitted \/ hist'.event \notin {hist.event, NoAtt})
             => (pc["worker"] = "ret" /\ pc'["worker"] = "select")
       /\ pc'["worker"] = "ret" => ((loc'["worker"].err = NoErr) <=> (loc'["worker"].att # NoAtt))]_vars

C32_Witness ==
    /\ pc["worker"] = "select" /\ hist.emitted = 1 /\ metrics.failed >= 1
    /\ hist.event # NoAtt /\ hist.event.tcb.status = "OutOfDate" /\ hist.event.height = 2

\* Goroutine p is in an attestation and has not reached teeState.update: it is
\* in the implementation's Init, or before its RakInit or RakReport call.
BeforeUpdate(p) ==
    loc[p].phase = "attest" /\ (InImplInit(p) \/ pc[p] \in {"rakinit", "report"})

\* C33 as stated: a step of an attestation that has not reached
\* teeState.update, its failure included, changes no counter; the step that
\* ends the implementation's Update changes the counters, and no other step
\* does: once per Update.
C33_OncePerUpdate ==
    [][/\ \A p \in Procs : BeforeUpdate(p) => metrics' = metrics
       /\ \A p \in Procs : UpdateEnds(p) => metrics'.performed = metrics.performed + 1
       /\ metrics' # metrics => \E p \in Procs : UpdateEnds(p)]_vars

\* C33, amended: a step of an attestation that has not reached
\* teeState.update, its failure included, changes no counter; with metrics
\* enabled the step that ends the implementation's Update counts it, once, and
\* no other step changes a counter; with metrics disabled no step does.
C33_EarlyFailureUncounted ==
    [][/\ \A p \in Procs : BeforeUpdate(p) => metrics' = metrics
       /\ \A p \in Procs :
            UpdateEnds(p) => metrics'.performed = metrics.performed + (IF cfg.metricsOn THEN 1 ELSE 0)
       /\ metrics' # metrics => (cfg.metricsOn /\ \E p \in Procs : UpdateEnds(p))]_vars

C33_Witness ==
    /\ cfg.metricsOn /\ pc["worker"] = "ret" /\ hist.emitted = 1
    /\ loc["worker"].err = Err("error while requesting worker quote and public RAK", "transport")
    /\ metrics = [performed |-> 2, successful |-> 2, failed |-> 0]

\* C34: once the process has exited, a worker that has been started
\* eventually returns, also when requests keep arriving and its attestations
\* keep failing, provided every attestation ends and the select serves each
\* case that is ready again and again.
C34_WorkerTerminates ==
    (exited /\ pc["worker"] # "off") ~> (pc["worker"] = "terminated")

C34_Witness ==
    /\ exited /\ pc["worker"] = "terminated" /\ notifyCh = 1
    /\ hist.emitted = 0 /\ metrics.failed >= 1

\* The quoting service handed this ECDSA attestation, as its i-th logged
\* call, a quote whose signature is not ECDSA-P256, or whose certification
\* data is neither a PCK certificate chain nor PPID.
UnsupportedQuoteAt(l, i) ==
    l.log[i].op = "aesm_quote" /\ l.log[i].res \in {"nonecdsa", "othercert"}

\* C35: an ECDSA Update whose decoded quote has a signature other than
\* ECDSA-P256, or certification data that is neither a PCK certificate chain
\* nor PPID, fails right after decoding with the unsupported error of that
\* check, not a PCK verification error: no policy is read, no bundle is
\* looked up, downloaded or cached, RakQuote is not called and no attestation
\* is produced.
C35_UnsupportedQuoteFailsEarly ==
    [][\A p \in Procs : \A i \in 1..Len(loc'[p].log) :
          UnsupportedQuoteAt(loc'[p], i) =>
             /\ i = Len(loc'[p].log) /\ pc'[p] = "ret"
             /\ loc'[p].err = IF loc'[p].log[i].res = "nonecdsa"
                               THEN Err("unsupported attestation key type", "unsupported")
                               ELSE Err("unsupported certification data type", "unsupported")
             /\ loc'[p].policy = NoPolicy /\ loc'[p].entry = NoEntry
             /\ loc'[p].fetched = NoBundle /\ loc'[p].rsp = NoRsp
             /\ loc'[p].att = NoAtt /\ loc'[p].tcb = NoBundle
             /\ tcbStore' = tcbStore]_vars

C35_Witness ==
    \E p \in Procs :
        /\ pc[p] = "ret" /\ Len(loc[p].log) > 0
        /\ UnsupportedQuoteAt(loc[p], Len(loc[p].log))
        /\ loc[p].err.msg = "unsupported certification data type"
        /\ tcbStore[platform] # NoEntry /\ now > 0

\* The i-th logged call of this attestation is a quote whose PCK verification
\* failed, or a failed read of the quote policy.
PckOrPolicyFailedAt(l, i) ==
    \/ l.log[i].op = "aesm_quote" /\ l.log[i].res = "badpck"
    \/ l.log[i].op = "registry_policy" /\ l.log[i].res = "err"

\* C36: an ECDSA Update whose PCK verification fails, or whose read of the
\* quote policy fails, ends there with that error: the cache is not looked
\* up, no bundle is downloaded or cached, RakQuote is not called and no
\* attestation is produced.
C36_PckOrPolicyFailure ==
    [][\A p \in Procs : \A i \in 1..Len(loc'[p].log) :
          PckOrPolicyFailedAt(loc'[p], i) =>
             /\ i = Len(loc'[p].log) /\ pc'[p] = "ret"
             /\ loc'[p].err = IF loc'[p].log[i].op = "aesm_quote"
                               THEN Err("PCK verification failed", "pck")
                               ELSE Err("quote policy", "registry")
             /\ ~Checked(loc'[p]) /\ Fetches(loc'[p]) = 0
             /\ loc'[p].entry = NoEntry /\ loc'[p].fetched = NoBundle
             /\ loc'[p].rsp = NoRsp /\ loc'[p].att = NoAtt /\ loc'[p].tcb = NoBundle
             /\ tcbStore' = tcbStore]_vars

C36_Witness ==
    \E p \in Procs :
        /\ pc[p] = "ret" /\ Len(loc[p].log) > 0
        /\ loc[p].log[Len(loc[p].log)] = Call("registry_policy", "err")
        /\ loc[p].quote.kind = "pck" /\ tcbStore[loc[p].quote.fmspc] # NoEntry

\* The attestation of l has cached a bundle.
Stored(l) == \E i \in 1..Len(l.log) : l.log[i].op = "cache"

\* C37: when the RakQuote call of an ECDSA Update fails or its answer holds
\* no RakQuote response, the Update fails and produces no attestation, and the
\* cache is left as it is: a bundle this Update cached before the call is
\* still the entry of the quote's FMSPC.
C37_NoRollback ==
    [][\A p \in Procs :
          (impl = "ECDSA" /\ pc[p] = "rakquote" /\ pc'[p] = "ret"
              /\ loc'[p].rsp.kind # "ok") =>
             /\ loc'[p].rsp.kind \in {"err", "nilrsp"}
             /\ loc'[p].err = IF loc'[p].rsp.kind = "err"
                               THEN Err("error while configuring quote", "transport")
                               ELSE Err("unexpected response from runtime", "transport")
             /\ loc'[p].att = NoAtt
             /\ tcbStore' = tcbStore
             /\ Stored(loc[p]) =>
                  /\ tcbStore'[loc[p].quote.fmspc].bundle = loc[p].fetched
                  /\ loc[p].fetched # NoBundle /\ loc[p].tcb = loc[p].fetched]_vars

C37_Witness ==
    \E p \in Procs :
        LET l == loc[p] IN
        /\ impl = "ECDSA" /\ pc[p] = "ret" /\ l.rsp.kind = "nilrsp" /\ l.att = NoAtt
        /\ Stored(l) /\ l.entry # NoEntry /\ l.entry.bundle # l.fetched
        /\ tcbStore[l.quote.fmspc].bundle = l.fetched

\* The implementation's Init has run and succeeded in the attestation of l.
InitRerun(l) ==
    \E i \in 1..Len(l.log) :
        \/ l.log[i] = Call("aesm_targetinfo", "ok")
        \/ l.log[i] = Call("epid_init", "ok")
        \/ l.log[i] = Call("registry", "pcs") /\ impl = "Mock"

\* C38: every attestation runs the implementation's Init before its Update;
\* each successful ECDSA Init leaves the teeStateECDSA with a cache object
\* created in it; so the cache object an Update consults was created in that
\* Update's own attestation, and what the lookup finds of earlier attestations
\* is the entry of the persistent store.
C38_CacheObjectPerAttestation ==
    [][\A p \in Procs :
          /\ (loc'[p].phase = "attest" /\ pc'[p] = "update") => InitRerun(loc'[p])
          /\ (pc[p] = "ec_ti" /\ pc'[p] = "rakinit") => hist'.cache = "current"
          /\ (pc[p] = "ec_check" /\ pc'[p] # "ec_check") =>
                /\ hist.cache = "current"
                /\ Pos(loc[p], "aesm_targetinfo") > 0
                /\ loc'[p].entry = tcbStore[loc[p].quote.fmspc]]_vars

C38_Witness ==
    /\ Selected("worker") /\ hist.cache = "current" /\ hist.emitted >= 1
    /\ loc["worker"].entry # NoEntry /\ ~loc["worker"].refresh /\ loc["worker"].vCached = "ok"

\* The number of verifyBundle calls, and of bundles cached, in the attestation
\* of l.
Verifies(l) == Cardinality({i \in 1..Len(l.log) : l.log[i].op = "verify"})
Stores(l) == Cardinality({i \in 1..Len(l.log) : l.log[i].op = "cache"})

\* C39: an ECDSA Update verifies at most two bundles and caches at most one;
\* when its scheduled refresh is due and the downloaded bundle verifies, that
\* is its only verification: the cached bundle is not verified.
C39_VerifyAndStoreBounds ==
    \A p \in Procs :
        LET l == loc[p] IN
        impl = "ECDSA" =>
            /\ Verifies(l) <= 2 /\ Stores(l) <= 1
            /\ (Selected(p) /\ l.refresh /\ l.vFetched = "ok") =>
                  /\ ~CachedTried(l) /\ Verifies(l) = 1 /\ Stores(l) = 1

C39_Witness ==
    \E p \in Procs :
        LET l == loc[p] IN
        /\ impl = "ECDSA" /\ pc[p] = "ret" /\ l.refresh /\ l.vFetched = "ok"
        /\ l.entry # NoEntry /\ l.vCached = "ok" /\ Verifies(l) = 1 /\ l.att # NoAtt

\* --------------------------------------------------------------------- spec
Step(p) ==
    \/ EcReg(p) \/ EcKeys(p) \/ EcTargetInfo(p) \/ EpidInit(p) \/ MockInit(p)
    \/ RakInit(p) \/ RakReport(p)
    \/ EcGetQuote(p) \/ EcPolicy(p) \/ EcCheck(p) \/ EcFresh(p) \/ EcForced(p)
    \/ RakQuote(p) \/ MockQuote(p) \/ MockPcs(p) \/ EpidUpdate(p)

Next ==
    \/ Tick \/ Notify \/ ProcessExit
    \/ TsInit \/ HostAttest \/ HostReturn
    \/ WorkerStart \/ WorkerSelectExit \/ WorkerSelectTick \/ WorkerSelectNotify \/ WorkerReturn
    \/ \E p \in Procs : Step(p)

Spec == Init /\ [][Next]_vars

\* The same node with metrics enabled or disabled.
InitMetrics == \E on \in BOOLEAN : InitWith([metricsOn |-> on, keyIDs |-> {1}, history |-> FALSE, events |-> FALSE])
SpecMetrics == InitMetrics /\ [][Next]_vars

\* The same node with a quoting service whose first ECDSA key can differ from
\* one call to the next.
InitKeys == InitWith([metricsOn |-> TRUE, keyIDs |-> KeyIDs, history |-> FALSE, events |-> FALSE])
SpecKeys == InitKeys /\ [][Next]_vars

\* A caller that calls the teeState's methods directly, in any order.
InitCallsWith(c) ==
    /\ cfg = c
    /\ impl \in {"nil", "Mock"}
    /\ pc = [p \in Procs |-> IF p = "host" THEN "caller" ELSE "off"]
    /\ loc = [p \in Procs |-> InitLoc]
    /\ key = 0
    /\ tcbStore = [f \in FMSPCs |-> NoEntry]
    /\ now = 0
    /\ ticker = [running |-> FALSE, next |-> 0, pending |-> FALSE]
    /\ notifyCh = 0
    /\ exited = FALSE
    /\ metrics = [performed |-> 0, successful |-> 0, failed |-> 0]
    /\ platform = 1
    /\ hist = [emitted |-> 0, owed |-> 0, sinceReset |-> RuntimeAttestInterval,
               prev |-> NoPrev, since |-> RefreshInterval, unsupported |-> FALSE,
               event |-> NoAtt, cache |-> "none"]

InitCalls == InitCallsWith([metricsOn |-> TRUE, keyIDs |-> {1}, history |-> FALSE, events |-> FALSE])

ImplStep(p) ==
    \/ EcReg(p) \/ EcKeys(p) \/ EcTargetInfo(p) \/ EpidInit(p) \/ MockInit(p)
    \/ EcGetQuote(p) \/ EcPolicy(p) \/ EcCheck(p) \/ EcFresh(p) \/ EcForced(p)
    \/ RakQuote(p) \/ MockQuote(p) \/ MockPcs(p) \/ EpidUpdate(p)

NextCalls ==
    \/ CallInit \/ CallUpdateTargetInfo \/ CallUpdate \/ CallReturn
    \/ TsInit
    \/ \E p \in Procs : ImplStep(p)

SpecCalls == InitCalls /\ [][NextCalls]_vars

\* A caller that repeats its calls while time passes, with the history of its
\* past Updates kept.
InitRepeat == InitCallsWith([metricsOn |-> TRUE, keyIDs |-> {1}, history |-> TRUE, events |-> FALSE])
NextRepeat == NextCalls \/ Tick
SpecRepeat == InitRepeat /\ [][NextRepeat]_vars

\* Two runtimes of one host, each calling its teeState's methods directly.
NextPeers == NextCalls \/ PeerUpdate \/ PeerReturn

SpecPeers == InitCalls /\ [][NextPeers]_vars

\* A node in a mock set-up: its teeState carries the mock implementation, so
\* only the mock's Init and Update run in its attestations.
InitMock == Init /\ impl = "Mock"

MockStep(p) ==
    \/ MockInit(p) \/ RakInit(p) \/ RakReport(p)
    \/ MockQuote(p) \/ MockPcs(p) \/ RakQuote(p)

NextMock ==
    \/ Tick \/ Notify \/ ProcessExit
    \/ HostAttest \/ HostReturn
    \/ WorkerStart \/ WorkerSelectExit \/ WorkerSelectTick \/ WorkerSelectNotify \/ WorkerReturn
    \/ \E p \in Procs : MockStep(p)

\* The scheduling of the Go runtime: a goroutine that can take a step takes it
\* (every call of an attestation returns), and the worker's select, which
\* picks at random among its ready cases, does not pass over the exit of the
\* process for ever.
Fairness ==
    /\ WF_vars(WorkerStart)
    /\ WF_vars(WorkerReturn)
    /\ WF_vars(MockStep("worker"))
    /\ SF_vars(WorkerSelectExit)

SpecFair == InitMock /\ [][NextMock]_vars /\ Fairness

\* The same node as in Spec, with the worker's last Updated event kept.
InitEvents == InitWith([metricsOn |-> TRUE, keyIDs |-> {1}, history |-> FALSE, events |-> TRUE])
SpecEvents == InitEvents /\ [][Next]_vars

\* The same node as in Spec, with the history of its past Updates kept.
InitHistory == InitWith([metricsOn |-> TRUE, keyIDs |-> {1}, history |-> TRUE, events |-> FALSE])
SpecHistory == InitHistory /\ [][Next]_vars

====
